---- MODULE Spec2Model ----
(***************************************************************************)
(* A model of the rlci pipeline engine (src/rlci/pipelines.py) together    *)
(* with the infrastructure wrappers it runs on (src/rlci/infrastructure.py,*)
(* src/rlci/events.py), of the listener that calls the server processes    *)
(* (src/rlci-server-listen.py) and of the job controller                   *)
(* (src/jobctrlsamples/sample2/jobcontroller2.py).                         *)
(*                                                                         *)
(* Spec: one behaviour is one server process. EngineServer.start serves a  *)
(* single request, Engine.trigger runs the named pipeline inside a         *)
(* Workspace and every command goes through PipelineStageProcess.run and   *)
(* Process.run. The handler blocks while a child process runs, so it is    *)
(* cut into steps at exactly those points: spawning a child, reading one   *)
(* line of its output, and waiting for its exit.                           *)
(*                                                                         *)
(* SpecListen: the listener calls one such server process after the other  *)
(* on the socket it has bound, while clients connect.                      *)
(*                                                                         *)
(* SpecJob: JobController.start runs the tasks of a job batch by batch.    *)
(***************************************************************************)
EXTENDS Integers, Sequences, FiniteSets, TLC

VARIABLES
    subprocess,      \* "real" (Process.create) or "null" (Process.create_null)
    responses,       \* NullSubprocess: the configured responses not yet consumed
    pipelines,       \* DB.pipelines: name -> pipeline
    stage_commands,  \* DB.stage_commands
    events,          \* the Events list listening to Terminal, Process and the server
    files,           \* Filesystem: the writes made, oldest first
    pc,              \* where the request handler stands
    request,         \* the request read from the connection, decoded
    name,            \* pipeline["name"] of the pipeline being run
    steps,           \* stage["steps"] of the pipeline being run
    step_index,      \* position of the for loop of StageExecution.run (1-based)
    variables,       \* the dict `variables` of StageExecution.run
    workspace,       \* Workspace.workspace: None or the path
    phase,           \* which command runs: "create", "step" or "remove"
    child,           \* the Popen object of the running (or last) child
    output,          \* the list `output` of SlurpMixin.slurp
    exc,             \* the exception in flight (None when there is none)
    raised,          \* every exception raised so far, oldest first
    retval,          \* None, or the value Engine.trigger returned
    successful,      \* EngineServer.successful: None until handle_request sets it
    connection,      \* the payloads written on the connection
    given,           \* a runner of kind "same": the outcome it gave for each command
    spawns,          \* every call of Popen: its argv and the events emitted before it
    \* rlci-server-listen.py
    listener,        \* where the listener stands: "loop", "call" or "exited"
    backlog,         \* the requests of the connections not yet accepted
    handlers,        \* the handler processes the listener has called, oldest first
    \* jobcontroller2.py
    job,             \* the tasks given to add_tasks, in order
    status,          \* Task._status of every task
    waiting_tasks,   \* JobController._waiting_tasks
    start_tasks,     \* JobController._start_tasks
    running_tasks,   \* JobController._running_tasks
    finished_tasks,  \* JobController._finished_tasks
    controller,      \* where JobController.start stands
    job_log,         \* the "Task started" and "Task finished" lines printed
    result,          \* Task._result of every task: None, "value" or "error"
    \* a program that calls Engine.trigger itself, time after time
    calls,           \* what each call of Engine.trigger gave its caller, oldest first
    \* rlci/cli.py
    args,            \* Args.get(): the arguments of the program
    client,          \* the client: "real", or "null" with configured responses
    client_responses,\* the responses left in a null client
    cli,             \* where CLI.run stands
    cli_events,      \* the events of the terminal and of the client, oldest first
    cli_response,    \* None, or what send_request returned
    cli_exit,        \* None, or the code given to sys.exit
    \* zero.py
    zero_args,       \* Args.get(): the arguments of the program
    zero,            \* where ZeroApp.run stands
    zero_commands,   \* the commands of the block ZeroApp runs, in order
    position,        \* the place in zero_commands of the command to run next
    zero_events,     \* the events of the terminal, the tests and the runner
    pending,         \* the exception in flight while a finally clause runs
    link,            \* None, or what the child of readlink wrote and returned
    current,         \* None, or what slurp gave for the current link
    zero_raised,     \* the commands that raised, with the exception, oldest first
    zero_exit,       \* None, or the exit code of the program
    \* rlci/server/src/server.py
    index,           \* the object "index" of the store: the pipeline id under each key
    executions,      \* the executions in the store, oldest first
    logs,            \* the lines of the logs object of every stage of every execution
    tasks,           \* the asyncio tasks of execute_stage, oldest first
    stored,          \* the pipeline objects of the store, by id, oldest first
    connections,     \* every connection served: its request and the lines written back
    \* legacy/jobctrlsamples/sample3/jobcontroller.py, next to job, status,
    \* waiting_tasks, finished_tasks, controller and job_log
    wait_for,        \* Task._wait_for of every task
    run_at,          \* where Task.run of every task stands
    \* rlci/tool/src/footer.py
    tool,            \* where cmd_run stands
    sh_calls,        \* what the child of every call of sh wrote, oldest first
    unread,          \* the lines of the child's stdout and stderr not yet read
    readers,         \* where the reader thread of each stream stands
    queue,           \* the queue.Queue of stream_process
    ends,            \* the list `ends` of stream_process
    printed,         \* the JSON lines printed, oldest first
    last_stdout,      \* the variable last_stdout of sh
    \* rlci/infrastructure/__init__.py: UnixDomainSocketClient.send_request
    socket_client,   \* where send_request stands
    retry_delays,    \* the local list retry_delays, in milliseconds
    connects,        \* what every call of s.connect did, oldest first
    slept,           \* the arguments of time.sleep, oldest first
    socket_events,   \* the events the client notified
    socket_written,  \* the objects written to the socket
    socket_raised    \* None, or the exception send_request ended with

engine_vars ==
    <<subprocess, responses, pipelines, stage_commands, events, files, pc,
      request, name, steps, step_index, variables, workspace, phase, child,
      output, exc, raised, retval, successful, connection, given,
      spawns>>

listener_vars == <<listener, backlog, handlers>>

job_vars == <<job, status, waiting_tasks, start_tasks, running_tasks,
              finished_tasks, controller, job_log, result>>

caller_vars == <<calls>>

cli_vars == <<args, client, client_responses, cli, cli_events, cli_response, cli_exit>>

zero_vars == <<zero_args, zero, zero_commands, position, zero_events, pending, link,
               current, zero_raised, zero_exit>>

server_vars == <<index, executions, logs, tasks, stored, connections>>

sample3_vars == <<wait_for, run_at>>

tool_vars == <<tool, sh_calls, unread, readers, queue, ends, printed, last_stdout>>

socket_vars ==
    <<socket_client, retry_delays, connects, slept, socket_events, socket_written,
      socket_raised>>

more_vars == <<tool_vars, socket_vars>>

other_vars == <<cli_vars, zero_vars, server_vars, sample3_vars, more_vars>>

vars == <<engine_vars, listener_vars, job_vars, caller_vars, other_vars>>

-----------------------------------------------------------------------------
(* Bounds of the model. *)

MaxSteps == 2         \* longest steps list of the pipeline under test
MaxOutputLines == 2   \* most lines a real child writes
MaxResponses == 2     \* most responses configured on a null process runner
MaxSameLines == 1     \* most lines a child of a runner of kind "same" writes

-----------------------------------------------------------------------------
(* Python values. *)

None == <<>>
Some(x) == <<x>>
Value(opt) == opt[1]

Last(s) == s[Len(s)]

RECURSIVE SeqsUpTo(_, _)
SeqsUpTo(S, n) ==
    IF n = 0 THEN {<<>>}
    ELSE LET shorter == SeqsUpTo(S, n - 1)
         IN  shorter \cup {Append(s, x) : s \in {t \in shorter : Len(t) = n - 1}, x \in S}

-----------------------------------------------------------------------------
(* Strings and lists of strings. *)

\* "\n".join(output)
RECURSIVE join_lines(_)
join_lines(lines) ==
    IF lines = <<>> THEN ""
    ELSE IF Len(lines) = 1 THEN lines[1]
    ELSE Head(lines) \o "\n" \o join_lines(Tail(lines))

\* "".join(output)
RECURSIVE join(_)
join(lines) ==
    IF lines = <<>> THEN "" ELSE Head(lines) \o join(Tail(lines))

\* ", ".join of the quoted elements of a list of strings
RECURSIVE repr_items(_)
repr_items(command) ==
    IF command = <<>> THEN ""
    ELSE IF Len(command) = 1 THEN "'" \o command[1] \o "'"
    ELSE "'" \o command[1] \o "', " \o repr_items(Tail(command))

\* repr(command) of a list of strings
repr(command) == "[" \o repr_items(command) \o "]"

\* str(returncode) of an int or None
str_returncode(returncode) ==
    IF returncode = None THEN "None" ELSE ToString(Value(returncode))

\* A line as a child writes it: its text and its line terminator.
RawLine(text) == [text |-> text, eol |-> "\n"]

\* A line of a configured response of the null runner: no terminator.
ConfiguredLine(text) == [text |-> text, eol |-> ""]

\* line.rstrip("\r\n")
rstrip(line) == line.text

-----------------------------------------------------------------------------
(* Pipelines. *)

\* The two kinds of token of a step's command: a str, or {"variable": n}.
Str(s) == [isstr |-> TRUE, value |-> s]
Ref(n) == [isstr |-> FALSE, variable |-> n]

Step(command, variable) == [command |-> command, variable |-> variable]

rlci_pipeline ==
    [name |-> "RLCIPipeline",
     steps |-> <<
        Step(<<Str("git"), Str("clone"), Str("git@github.com:rickardlindberg/rlci.git"), Str(".")>>, None),
        Step(<<Str("git"), Str("merge"), Str("--no-ff"), Str("-m"), Str("Integrate."), Str("origin/BRANCH")>>, None),
        Step(<<Str("./zero.py"), Str("build")>>, None),
        Step(<<Str("git"), Str("push")>>, None),
        Step(<<Str("git"), Str("rev-parse"), Str("HEAD")>>, Some("version")),
        Step(<<Str("./zero.py"), Str("deploy"), Ref("version")>>, None) >>]

test_pipeline == [name |-> "TEST-PIPELINE", steps |-> <<>>]

\* The steps a pipeline under test is made of (the steps of the doctests).
StepChoices ==
    { Step(<<Str("./build")>>, None),
      Step(<<Str("cat"), Str("path.txt")>>, Some("path")),
      Step(<<Str("cd"), Ref("path")>>, None) }

\* The pipelines trigger_in_test_mode is given.
TestPipelines ==
    { [name |-> "TEST", steps |-> s] : s \in SeqsUpTo(StepChoices, MaxSteps) }

-----------------------------------------------------------------------------
(* Commands. *)

create_create_command == <<"mktemp", "-d">>

\* A ProcessInDirectory that runs the command as it is, where it is.
bare_command(command, directory) == command

\* ProcessInDirectory.create_command
create_command(command, directory) ==
    << "python3",
       "-c",
       "import sys; import os; os.chdir(sys.argv[1]); os.execvp(sys.argv[2], sys.argv[2:])",
       directory >> \o command

\* An __exit__ that leaves the workspace where it is.
remove_nothing(directory) == <<"true">>

\* Workspace.__exit__: ["rm", "-rf", self.workspace]
remove_command(directory) == <<"rm", "-rf", directory>>

\* The list comprehension of StageExecution.run raises KeyError on a
\* {"variable": n} whose n is not a key of `variables`.
raises_KeyError(command, vs) ==
    \E i \in 1..Len(command) :
        /\ ~command[i].isstr
        /\ command[i].variable \notin DOMAIN vs

resolve(command, vs) ==
    [i \in 1..Len(command) |->
        IF command[i].isstr THEN command[i].value ELSE vs[command[i].variable]]

\* A slurp whose result is dropped.
bind_nothing(vs, n, value) == vs

\* variables[step["variable"]] = value
bind(vs, n, value) ==
    [k \in (DOMAIN vs) \cup {n} |-> IF k = n THEN value ELSE vs[k]]

-----------------------------------------------------------------------------
(* The report Engine.trigger writes, as the list of its lines. *)

ReportPath == "/opt/rlci/html/index.html"

\* A report that leaves the output lines out.
stage_command_report_without_output(stage_command) ==
    << "<h2><pre>" \o repr(stage_command.command) \o "<pre></h2>",
       "<p><b>returncode: " \o str_returncode(stage_command.returncode) \o "</b></p>",
       "<pre>",
       "</pre>" >>

stage_command_report(stage_command) ==
    << "<h2><pre>" \o repr(stage_command.command) \o "<pre></h2>",
       "<p><b>returncode: " \o str_returncode(stage_command.returncode) \o "</b></p>",
       "<pre>" >>
    \o stage_command.output
    \o << "</pre>" >>

RECURSIVE stage_commands_report(_)
stage_commands_report(commands) ==
    IF commands = <<>> THEN <<>>
    ELSE stage_command_report(Head(commands)) \o stage_commands_report(Tail(commands))

report_lines(pipeline_name, commands) ==
    << "<h1>Last run pipeline: " \o pipeline_name \o "</h1>" >>
    \o stage_commands_report(commands)


-----------------------------------------------------------------------------
(* The process runner. *)

\* What a real child may write: the first lines of a text whose i-th line is
\* "/w i" (lines differ, and hold a blank), each ended by a newline.
child_text(n) == [i \in 1..n |-> RawLine("/w " \o ToString(i))]

RECURSIVE configured_lines(_)
configured_lines(texts) ==
    IF texts = <<>> THEN <<>>
    ELSE <<ConfiguredLine(Head(texts))>> \o configured_lines(Tail(texts))

\* The exit codes a child may end with (99 is the failure of the doctests).
ReturnCodes == {0, 99}

\* The Popen objects a real subprocess.Popen may return.
RealChildren ==
    { [stdout |-> child_text(n), returncode |-> rc] :
        n \in 0..MaxOutputLines, rc \in ReturnCodes }

\* The responses a test configures on Process.create_null.
Response(command, texts, returncode) ==
    [command |-> command, output |-> texts, returncode |-> returncode]

ResponseChoices ==
    { Response(create_create_command, <<"/workspace">>, 0),
      Response(create_create_command, <<>>, 99),
      Response(create_command(<<"./build">>, "/workspace"), <<"I failed :(">>, 99),
      Response(create_command(<<"cat", "path.txt">>, "/workspace"), <<"secret", "-path">>, 0),
      Response(remove_command("/workspace"), <<>>, 99) }

\* NullSubprocess.Popen: the index of the first response for `command`, or 0.
first_match(rs, command) ==
    IF \E i \in 1..Len(rs) : rs[i]["command"] = command
    THEN CHOOSE i \in 1..Len(rs) :
            /\ rs[i]["command"] = command
            /\ \A j \in 1..(i - 1) : rs[j]["command"] # command
    ELSE 0

\* responses.pop(i)
pop(rs, i) == SubSeq(rs, 1, i - 1) \o SubSeq(rs, i + 1, Len(rs))

\* The NullProcess that NullSubprocess.Popen returns.
null_child(rs, command) ==
    LET i == first_match(rs, command)
    IN  IF i = 0
        THEN [stdout |-> <<>>, returncode |-> 0]
        ELSE [stdout |-> configured_lines(rs[i]["output"]),
              returncode |-> rs[i]["returncode"]]

\* A null runner whose responses are never used up.
null_responses_kept(rs, command) == rs

\* The responses left when NullSubprocess.Popen has popped the match.
null_responses_after(rs, command) ==
    LET i == first_match(rs, command)
    IN  IF i = 0 THEN rs ELSE pop(rs, i)

Event(kind, data) == [kind |-> kind, data |-> data]

-----------------------------------------------------------------------------
(* Initial state: the engine is built, the server waits for its request. *)

EmptyDict == [k \in {} |-> ""]

NoChild == [stdout |-> <<>>, returncode |-> 0]

\* The names a request may carry. The six-step pipeline "rlci" is run against
\* the null runner only, as in its doctest.
Requests ==
    {"test", "test-pipeline", "does-not-exist"}
        \cup (IF subprocess = "null" THEN {"rlci"} ELSE {})

\* Engine.__init__ saves "rlci" and "test-pipeline"; trigger_in_test_mode saves
\* the pipeline under test as "test" before it builds the engine.
saved_pipelines(pipeline) ==
    [n \in {"test", "rlci", "test-pipeline"} |->
        IF n = "rlci" THEN rlci_pipeline
        ELSE IF n = "test-pipeline" THEN test_pipeline
        ELSE pipeline]

\* The server is started by hand, not by rlci-server-listen.py.
no_listener ==
    /\ listener = "none"
    /\ backlog = <<>>
    /\ handlers = <<>>

\* The engine is not called directly: it answers the requests of a server.
no_caller == calls = <<>>

\* The command line interface is not run.
no_cli ==
    /\ args = <<>>
    /\ client = "none"
    /\ client_responses = <<>>
    /\ cli = "none"
    /\ cli_events = <<>>
    /\ cli_response = None
    /\ cli_exit = None

\* zero.py is not run.
no_zero ==
    /\ zero_args = <<>>
    /\ zero = "none"
    /\ zero_commands = <<>>
    /\ position = 1
    /\ zero_events = <<>>
    /\ pending = None
    /\ link = None
    /\ current = None
    /\ zero_raised = <<>>
    /\ zero_exit = None

\* The JSON server is not run.
no_server ==
    /\ index = EmptyDict
    /\ executions = <<>>
    /\ logs = <<>>
    /\ tasks = <<>>
    /\ stored = <<>>
    /\ connections = <<>>

\* The job controller of sample3 is not at work.
no_sample3 ==
    /\ wait_for = EmptyDict
    /\ run_at = EmptyDict

\* The other programs of the repository are not run.
\* The tool is not run.
no_tool ==
    /\ tool = "none"
    /\ sh_calls = <<>>
    /\ unread = EmptyDict
    /\ readers = EmptyDict
    /\ queue = <<>>
    /\ ends = <<>>
    /\ printed = <<>>
    /\ last_stdout = ""

\* The socket client is not run.
no_socket ==
    /\ socket_client = "none"
    /\ retry_delays = <<>>
    /\ connects = <<>>
    /\ slept = <<>>
    /\ socket_events = <<>>
    /\ socket_written = <<>>
    /\ socket_raised = <<>>

no_more == no_tool /\ no_socket

no_other == no_cli /\ no_zero /\ no_server /\ no_sample3 /\ no_more

\* No job controller is at work.
no_job ==
    /\ job = <<>>
    /\ status = EmptyDict
    /\ waiting_tasks = <<>>
    /\ start_tasks = <<>>
    /\ running_tasks = <<>>
    /\ finished_tasks = <<>>
    /\ controller = "none"
    /\ job_log = <<>>
    /\ result = EmptyDict

Init ==
    /\ subprocess \in {"real", "null"}
    /\ responses \in IF subprocess = "null"
                     THEN SeqsUpTo(ResponseChoices, MaxResponses)
                     ELSE {<<>>}
    /\ pipelines \in {saved_pipelines(p) : p \in TestPipelines}
    /\ stage_commands = <<>>
    /\ events = <<>>
    /\ files = <<>>
    /\ pc = "accept"
    /\ request = ""
    /\ name = ""
    /\ steps = <<>>
    /\ step_index = 1
    /\ variables = EmptyDict
    /\ workspace = None
    /\ phase = "create"
    /\ child = NoChild
    /\ output = <<>>
    /\ exc = None
    /\ raised = <<>>
    /\ retval = None
    /\ successful = None
    /\ connection = <<>>
    /\ given = {}
    /\ spawns = <<>>
    /\ no_listener
    /\ no_job
    /\ no_caller
    /\ no_other


-----------------------------------------------------------------------------
(* PipelineStageProcess.run and Process.run up to the spawn of the child.   *)

\* Cleanup on the success path only: no __exit__ when the body raises.
pc_after_raise_without_exit(ph) == "finally"

\* Where an exception raised while `ph` runs its command goes next: out of
\* __enter__ and out of __exit__ it leaves the with statement, inside the
\* body it first runs Workspace.__exit__.
pc_after_raise(ph) == IF ph = "step" THEN "exit" ELSE "finally"

\* terminal.print_line(repr(command)); db.add_stage_command(command);
\* Process.run: notify("PROCESS", command), then Popen.
begin_command(command) ==
    /\ events' = events \o << Event("STDOUT", repr(command)),
                              Event("PROCESS", command) >>
    /\ stage_commands' = Append(stage_commands,
            [returncode |-> None, output |-> <<>>, command |-> command])

\* The children of a runner of kind "same": real children of few lines.
SameChildren == {c \in RealChildren : Len(c.stdout) <= MaxSameLines}

\* What a runner of kind "same" did with a command: the child it spawned, or
\* None when the spawn raised OSError.
Answer(command, outcome) == [command |-> command, outcome |-> outcome]

\* A runner of kind "same" is a real runner that answers equal commands
\* equally: `outcome` is what it gave for this command before, if anything.
answers(command, outcome) ==
    \A g \in given : g.command = command => g.outcome = outcome

\* A call of subprocess.Popen: its argv, and how many events had been
\* emitted when it was made.
Spawn(command, after) == [command |-> command, after |-> after]

\* subprocess.Popen(command, ...): a child, or OSError when it cannot be spawned.
Popen(command, ph) ==
    /\ spawns' = Append(spawns, Spawn(command, Len(events')))
    /\ \/ /\ subprocess = "null"
          /\ child' = null_child(responses, command)
          /\ responses' = null_responses_after(responses, command)
          /\ pc' = "reading"
          /\ UNCHANGED <<exc, raised, given>>
       \/ /\ subprocess = "real"
          /\ child' \in RealChildren
          /\ pc' = "reading"
          /\ UNCHANGED <<responses, exc, raised, given>>
       \/ /\ subprocess = "real"
          /\ exc' = Some("OSError")
          /\ raised' = Append(raised, "OSError")
          /\ pc' = pc_after_raise(ph)
          /\ UNCHANGED <<responses, child, given>>
       \/ /\ subprocess = "same"
          /\ \E c \in SameChildren :
               /\ answers(command, Some(c))
               /\ given' = given \cup {Answer(command, Some(c))}
               /\ child' = c
          /\ pc' = "reading"
          /\ UNCHANGED <<responses, exc, raised>>
       \/ /\ subprocess = "same"
          /\ answers(command, None)
          /\ given' = given \cup {Answer(command, None)}
          /\ exc' = Some("OSError")
          /\ raised' = Append(raised, "OSError")
          /\ pc' = pc_after_raise(ph)
          /\ UNCHANGED <<responses, child>>

run_command(command, ph) ==
    /\ begin_command(command)
    /\ Popen(command, ph)
    /\ phase' = ph
    /\ output' = <<>>

-----------------------------------------------------------------------------
(* The decisions the handler takes. *)

\* A runner that does not wait for the end of the child's output.
at_eof_at_once(c) == TRUE

\* `for line in process.stdout` ends when the child's output is exhausted.
at_eof(c) == c.stdout = <<>>

\* A runner that never raises: the exit code is recorded and ignored.
raises_CommandFailure_never(returncode) == FALSE

\* `if returncode != 0: raise CommandFailure()`
raises_CommandFailure(returncode) == returncode # 0

\* A trigger without its except clause.
catches_nothing(exception) == FALSE

\* `except CommandFailure:` of Engine.trigger
catches(exception) == exception = Some("CommandFailure")

\* str(self.successful).encode('ascii')
encode_bool(b) == IF b THEN "True" ELSE "False"

-----------------------------------------------------------------------------
(* The request handler, cut where it blocks. *)

\* The log of an earlier run when nothing resets it.
keep_stage_commands(earlier) == earlier

\* DB.create_stage_commands: the log starts anew, whatever it held.
create_stage_commands(earlier) == <<>>

\* The bindings of an earlier run when nothing renews them.
keep_variables(earlier) == earlier

\* variables = {} in StageExecution.run: a new dict, whatever an earlier one held.
new_variables(earlier) == EmptyDict

\* EngineServer.handle_request decodes the request; Engine.trigger looks the
\* pipeline up, prints "Triggered ..." and StageExecution.run resets the
\* stage-command log. A name that is not in the store raises KeyError out of
\* the handler.
handle_request(r) ==
    /\ request' = r
    /\ IF r \in DOMAIN pipelines
       THEN /\ name' = pipelines[r].name
            /\ steps' = pipelines[r].steps
            /\ events' = Append(events, Event("STDOUT", "Triggered " \o pipelines[r].name))
            /\ stage_commands' = create_stage_commands(stage_commands)
            /\ pc' = "enter"
            /\ UNCHANGED <<exc, raised>>
       ELSE /\ exc' = Some("KeyError")
            /\ raised' = Append(raised, "KeyError")
            /\ pc' = "closed"
            /\ UNCHANGED <<name, steps, events, stage_commands>>
    /\ UNCHANGED <<subprocess, responses, pipelines, files, step_index, variables,
                   workspace, phase, child, output, retval, successful, connection>>

\* UnixDomainSocketServer.start of the null server: the simulated request is
\* read and handed to the handler.
HandleRequest ==
    /\ pc = "accept"
    /\ \E r \in Requests : handle_request(r)
    /\ UNCHANGED <<given, spawns, listener_vars, job_vars, caller_vars, other_vars>>

\* Workspace.__enter__: slurp(["mktemp", "-d"]) up to the spawn.
EnterWorkspace ==
    /\ pc = "enter"
    /\ run_command(create_create_command, "create")
    /\ UNCHANGED <<subprocess, pipelines, files, request, name, steps, step_index,
                   variables, workspace, retval, successful, connection>>
    /\ UNCHANGED <<listener_vars, job_vars, caller_vars, other_vars>>

\* One turn of the for loop of StageExecution.run, up to the spawn: resolve
\* the tokens, then run or slurp the command in the workspace.
RunStep ==
    /\ pc = "loop"
    /\ step_index <= Len(steps)
    /\ LET step == steps[step_index]
       IN  IF raises_KeyError(step.command, variables)
           THEN /\ exc' = Some("KeyError")
                /\ raised' = Append(raised, "KeyError")
                /\ pc' = "exit"
                /\ UNCHANGED <<responses, stage_commands, events, phase, child, output,
                               given, spawns>>
           ELSE run_command(
                    create_command(resolve(step.command, variables), Value(workspace)),
                    "step")
    /\ UNCHANGED <<subprocess, pipelines, files, request, name, steps, step_index,
                   variables, workspace, retval, successful, connection>>
    /\ UNCHANGED <<listener_vars, job_vars, caller_vars, other_vars>>

\* Workspace.__exit__: run(["rm", "-rf", self.workspace]) up to the spawn. It
\* runs when the body has ended, normally or by an exception.
ExitWorkspace ==
    /\ pc = "exit"
    /\ run_command(remove_command(Value(workspace)), "remove")
    /\ UNCHANGED <<subprocess, pipelines, files, request, name, steps, step_index,
                   variables, workspace, retval, successful, connection>>
    /\ UNCHANGED <<listener_vars, job_vars, caller_vars, other_vars>>

\* Process.run reads one line of the child's output and hands it to `log`:
\* print it, store it in the log, and pass it on to slurp's list.
ReadLine ==
    /\ pc = "reading"
    /\ ~at_eof(child)
    /\ LET line == rstrip(Head(child.stdout))
       IN  /\ events' = Append(events, Event("STDOUT", line))
           /\ stage_commands' =
                [stage_commands EXCEPT ![Len(stage_commands)].output = Append(@, line)]
           /\ output' = Append(output, line)
    /\ child' = [child EXCEPT !.stdout = Tail(@)]
    /\ UNCHANGED <<subprocess, responses, pipelines, files, pc, request, name, steps,
                   step_index, variables, workspace, phase, exc, raised, retval,
                   successful, connection>>
    /\ UNCHANGED <<given, spawns, listener_vars, job_vars, caller_vars, other_vars>>

\* The position of the for loop after step i - 1: the next step, or the end
\* of the body of the with statement.
pc_of_loop(i) == IF i <= Len(steps) THEN "loop" ELSE "exit"

\* The child has exited: Process.run returns its exit code,
\* PipelineStageProcess.run records it and raises CommandFailure unless it is
\* 0, and the caller of run or slurp goes on.
Wait ==
    /\ pc = "reading"
    /\ at_eof(child)
    /\ stage_commands' =
            [stage_commands EXCEPT ![Len(stage_commands)].returncode = Some(child.returncode)]
    /\ IF raises_CommandFailure(child.returncode)
       THEN /\ exc' = Some("CommandFailure")
            /\ raised' = Append(raised, "CommandFailure")
            /\ pc' = pc_after_raise(phase)
            /\ UNCHANGED <<workspace, variables, step_index>>
       ELSE /\ UNCHANGED <<exc, raised>>
            /\ CASE phase = "create" ->
                    /\ workspace' = Some(join(output))
                    /\ variables' = new_variables(variables)
                    /\ step_index' = 1
                    /\ pc' = pc_of_loop(1)
                 [] phase = "step" ->
                    /\ variables' =
                        IF steps[step_index].variable = None
                        THEN variables
                        ELSE bind(variables, Value(steps[step_index].variable), join(output))
                    /\ step_index' = step_index + 1
                    /\ pc' = pc_of_loop(step_index + 1)
                    /\ UNCHANGED workspace
                 [] phase = "remove" ->
                    /\ pc' = "finally"
                    /\ UNCHANGED <<workspace, variables, step_index>>
    /\ UNCHANGED <<subprocess, responses, pipelines, events, files, request, name, steps,
                   phase, child, output, retval, successful, connection>>
    /\ UNCHANGED <<given, spawns, listener_vars, job_vars, caller_vars, other_vars>>

\* Engine.trigger after StageExecution.run: return True, or catch
\* CommandFailure, print "FAIL" and return False; any other exception goes
\* on. In every case the finally clause writes the report first.
FinishTrigger ==
    /\ pc = "finally"
    /\ events' = IF catches(exc)
                 THEN Append(events, Event("STDOUT", "FAIL"))
                 ELSE events
    /\ files' = Append(files,
            [path |-> ReportPath, contents |-> report_lines(request, stage_commands)])
    /\ IF exc = None THEN /\ retval' = Some(TRUE)
                          /\ exc' = None
                          /\ pc' = "return"
       ELSE IF catches(exc)
                     THEN /\ retval' = Some(FALSE)
                          /\ exc' = None
                          /\ pc' = "return"
       ELSE /\ pc' = "closed"
            /\ UNCHANGED <<retval, exc>>
    /\ UNCHANGED <<subprocess, responses, pipelines, stage_commands, request, name,
                   steps, step_index, variables, workspace, phase, child, output,
                   raised, successful, connection>>
    /\ UNCHANGED <<given, spawns, listener_vars, job_vars, caller_vars, other_vars>>

\* EngineServer.handle_request stores what trigger returned and answers;
\* UnixDomainSocketServer.start notifies SERVER_RESPONSE and writes the answer.
Reply ==
    /\ pc = "return"
    /\ successful' = retval
    /\ events' = Append(events, Event("SERVER_RESPONSE", encode_bool(Value(retval))))
    /\ connection' = Append(connection, encode_bool(Value(retval)))
    /\ pc' = "closed"
    /\ UNCHANGED <<subprocess, responses, pipelines, stage_commands, files, request,
                   name, steps, step_index, variables, workspace, phase, child, output,
                   exc, raised, retval>>
    /\ UNCHANGED <<given, spawns, listener_vars, job_vars, caller_vars, other_vars>>

Next ==
    \/ HandleRequest
    \/ EnterWorkspace
    \/ RunStep
    \/ ExitWorkspace
    \/ ReadLine
    \/ Wait
    \/ FinishTrigger
    \/ Reply

Spec == Init /\ [][Next]_vars


-----------------------------------------------------------------------------
(* What a test observes of a run. *)

\* events.filter("PROCESS")
process_events == SelectSeq(events, LAMBDA e : e.kind = "PROCESS")

\* events.has(kind, data)
has(kind, data) ==
    \E i \in 1..Len(events) : events[i].kind = kind /\ events[i].data = data

is_step_command(command) == Len(command) >= 4 /\ command[1] = "python3"

is_remove_command(command) == command[1] = "rm"

exited_with(stage_command, codes) ==
    /\ stage_command.returncode # None
    /\ Value(stage_command.returncode) \in codes

Failures == ReturnCodes \ {0}

\* The stage-command log and the PROCESS events tell of the same commands.
log_matches_events ==
    /\ Len(process_events) = Len(stage_commands)
    /\ \A i \in 1..Len(stage_commands) :
            process_events[i].data = stage_commands[i].command

\* The run has left StageExecution.run (and the with statement in it).
run_left == pc \in {"finally", "return", "closed"}

-----------------------------------------------------------------------------
(* C1: fail-fast. In every state of a run, if the command of a step has     *)
(* exited non-zero then no step was spawned after it: at most one PROCESS   *)
(* event follows the failing step's, and it is the removal of the workspace.*)
C1_FailFast ==
    /\ log_matches_events
    /\ \A i \in 1..Len(stage_commands) :
        (is_step_command(stage_commands[i].command)
            /\ exited_with(stage_commands[i], Failures)) =>
            /\ Len(process_events) <= i + 1
            /\ Len(process_events) = i + 1 =>
                    process_events[i + 1].data = remove_command(Value(workspace))

\* A two-step pipeline whose first step failed has ended: only the removal
\* followed the failing step.
C1_Witness ==
    /\ pc = "closed"
    /\ Len(steps) = 2
    /\ Len(stage_commands) = 3
    /\ is_step_command(stage_commands[2].command)
    /\ exited_with(stage_commands[2], Failures)
    /\ retval = Some(FALSE)

(* C2: release on every exit path. Whenever the run has left the with       *)
(* statement and mktemp -d had exited 0, the last PROCESS event is          *)
(* ['rm', '-rf', path] with path the text captured from mktemp, and every   *)
(* PROCESS event between the create and it is a step's: the removal comes   *)
(* after the last spawned step, before trigger returns, whether the steps   *)
(* succeeded or one failed.                                                 *)
C2_ReleaseOnEveryExit ==
    (run_left /\ stage_commands # <<>> /\ exited_with(stage_commands[1], {0})) =>
        LET P == process_events
        IN  /\ Len(P) >= 2
            /\ P[1].data = create_create_command
            /\ P[Len(P)].data = <<"rm", "-rf", join(stage_commands[1].output)>>
            /\ \A i \in 2..(Len(P) - 1) : is_step_command(P[i].data)

\* A run whose step failed has ended with the removal as its last command.
C2_Witness ==
    /\ pc = "closed"
    /\ Len(stage_commands) = 3
    /\ exited_with(stage_commands[1], {0})
    /\ stage_commands[1].output # <<>>
    /\ exited_with(stage_commands[2], Failures)
    /\ is_remove_command(stage_commands[3].command)

(* C3: workspace-create failure. Once mktemp -d has exited non-zero, the    *)
(* create command is the only PROCESS event of the run (no step, no rm),    *)
(* and when the handler has ended STDOUT "FAIL" was emitted, trigger        *)
(* returned False and False was the reply.                                  *)
C3_CreateFailure ==
    (stage_commands # <<>> /\ exited_with(stage_commands[1], Failures)) =>
        /\ Len(process_events) = 1
        /\ process_events[1].data = create_create_command
        /\ pc = "closed" =>
            /\ has("STDOUT", "FAIL")
            /\ successful = Some(FALSE)
            /\ connection = <<"False">>

\* The handler has ended after a failed mktemp -d, for a pipeline with steps.
C3_Witness ==
    /\ pc = "closed"
    /\ steps # <<>>
    /\ stage_commands # <<>>
    /\ exited_with(stage_commands[1], Failures)


\* The run was started (the pipeline was found) and the handler has ended.
run_ended == pc = "closed" /\ request \in DOMAIN pipelines

\* The workspace could not be set up: its creation raised.
setup_error == raised # <<>> /\ workspace = None

was_raised(exception) == \E i \in 1..Len(raised) : raised[i] = exception

(* C4: Engine.trigger returns true iff no CommandFailure or setup error was *)
(* raised during the run, and STDOUT "FAIL" is emitted iff it returns       *)
(* false. Stated of every run that has ended.                               *)
C4_TriggerOutcome ==
    run_ended =>
        /\ (retval = Some(TRUE)) <=> ~(was_raised("CommandFailure") \/ setup_error)
        /\ has("STDOUT", "FAIL") <=> (retval = Some(FALSE))

(* C9: if rm -rf exits non-zero after mktemp and every step exited 0, the   *)
(* outcome is still true and no STDOUT "FAIL" is emitted.                   *)
C9_ReleaseFailureKeepsSuccess ==
    (/\ run_ended
     /\ Len(stage_commands) = Len(steps) + 2
     /\ \A i \in 1..(Len(stage_commands) - 1) : exited_with(stage_commands[i], {0})
     /\ is_remove_command(Last(stage_commands).command)
     /\ exited_with(Last(stage_commands), Failures)) =>
        /\ successful = Some(TRUE)
        /\ ~has("STDOUT", "FAIL")

(* C10: a step that references a variable no earlier step has bound (the    *)
(* only thing to go wrong in the run) is handled as a command failure: no   *)
(* further step is spawned, and when the run has ended the workspace was    *)
(* released by the last command, the report was written, STDOUT "FAIL" was  *)
(* emitted, trigger returned False and no exception is left in flight.      *)
C10_UnresolvedVariable ==
    (run_ended /\ raised = <<"KeyError">>) =>
        /\ Len(stage_commands) = step_index + 1
        /\ is_remove_command(Last(stage_commands).command)
        /\ Len(files) = 1
        /\ has("STDOUT", "FAIL")
        /\ successful = Some(FALSE)
        /\ exc = None


\* The index in the log of the command of step k: the create comes first.
log_index(k) == k + 1

\* The PROCESS event at position i is the spawn of step k: the shim, the
\* workspace, then one element per token, the literal ones unchanged.
spawns_step(command, k) ==
    /\ is_step_command(command)
    /\ Len(command) = 4 + Len(steps[k].command)
    /\ \A p \in 1..Len(steps[k].command) :
            steps[k].command[p].isstr => command[4 + p] = steps[k].command[p].value

(* C5: the engine is strictly sequential. In every state the PROCESS events *)
(* are the create, then the spawns of steps 1, 2, ... in declaration order, *)
(* then at most the removal, which is last; and a step is spawned only when *)
(* the child before it has had all its output read and its exit code        *)
(* recorded in the log.                                                     *)
C5_Order ==
    LET P == process_events
    IN  /\ P # <<>> => P[1].data = create_create_command
        /\ \A i \in 2..Len(P) :
            \/ /\ i - 1 <= Len(steps)
               /\ spawns_step(P[i].data, i - 1)
            \/ /\ i = Len(P)
               /\ is_remove_command(P[i].data)

C5_SpawnAfterPrevious ==
    (/\ Len(process_events') = Len(process_events) + 1
     /\ is_step_command(Last(process_events').data)) =>
        /\ child.stdout = <<>>
        /\ stage_commands # <<>>
        /\ Last(stage_commands).returncode # None
        /\ Len(stage_commands') = Len(stage_commands) + 1

\* C5: the order of the PROCESS events holds in every state, and every spawn
\* of a step comes after the whole life of the child before it.
C5_Sequential == []C5_Order /\ [][C5_SpawnAfterPrevious]_vars

\* Two consecutive steps were spawned, the first of which wrote two lines.
C5_Witness ==
    /\ Len(stage_commands) >= 3
    /\ is_step_command(stage_commands[2].command)
    /\ is_step_command(stage_commands[3].command)
    /\ Len(stage_commands[2].output) = 2

\* The last step before step k that captures variable n (0 when none does).
last_binder(k, n) ==
    LET binders == {j \in 1..(k - 1) : steps[j].variable = Some(n)}
    IN  IF binders = {} THEN 0
        ELSE CHOOSE j \in binders : \A other \in binders : other <= j

captures(k) == steps[k].variable # None

(* C6: variable binding. `variables` changes only when a capturing step's   *)
(* child has exited with code 0 after all its output was read; a capturing  *)
(* step whose child exits non-zero binds nothing and ends the loop; and     *)
(* whenever the loop stands before step k, the variable of every capturing  *)
(* step before k is bound.                                                  *)
C6_BoundBeforeNext ==
    pc = "loop" =>
        \A j \in 1..(step_index - 1) :
            captures(j) => Value(steps[j].variable) \in DOMAIN variables

C6_BindOnSuccess ==
    /\ variables' # variables =>
        /\ pc = "reading" /\ phase = "step"
        /\ captures(step_index)
        /\ child.stdout = <<>>
        /\ child.returncode = 0
        /\ output = stage_commands[log_index(step_index)].output
        /\ Value(steps[step_index].variable) \in DOMAIN variables'
    /\ (/\ pc = "reading" /\ phase = "step" /\ captures(step_index)
        /\ child.stdout = <<>> /\ child.returncode # 0
        /\ pc' # pc) =>
            /\ variables' = variables
            /\ pc' = "exit"

\* C6: the variables of earlier capturing steps are bound whenever a step is
\* about to resolve its tokens, and a binding is made only on exit code 0.
C6_VariableBinding == []C6_BoundBeforeNext /\ [][C6_BindOnSuccess]_vars

\* The loop stands before step 2 and step 1 has bound its variable.
C6_Witness ==
    /\ pc = "loop"
    /\ step_index = 2
    /\ captures(1)
    /\ DOMAIN variables = {"path"}

\* The lines of an output one after the other, nothing between them.
RECURSIVE Concatenation(_)
Concatenation(lines) ==
    IF Len(lines) = 0 THEN ""
    ELSE Concatenation(SubSeq(lines, 1, Len(lines) - 1)) \o lines[Len(lines)]

(* C7: the value of a captured variable is the concatenation, without a     *)
(* separator, of the output lines of the step that last captured it, in     *)
(* order; and the command spawned for a step has one element per token of   *)
(* the step, the element of a {variable: n} token being that whole value.   *)
C7_CapturedValue ==
    /\ \A n \in DOMAIN variables :
        /\ last_binder(step_index, n) # 0
        /\ variables[n] =
            Concatenation(stage_commands[log_index(last_binder(step_index, n))].output)
    /\ \A k \in 1..Len(steps) :
        (log_index(k) <= Len(stage_commands)
            /\ is_step_command(stage_commands[log_index(k)].command)) =>
            LET command == stage_commands[log_index(k)].command
            IN  /\ Len(command) = 4 + Len(steps[k].command)
                /\ \A p \in 1..Len(steps[k].command) :
                    ~steps[k].command[p].isstr =>
                        command[4 + p] = Concatenation(
                            stage_commands[log_index(
                                last_binder(k, steps[k].command[p].variable))].output)

\* A step was spawned with a variable captured from two lines of output.
C7_Witness ==
    /\ Len(steps) = 2
    /\ captures(1)
    /\ Len(steps[2].command) = 2
    /\ ~steps[2].command[2].isstr
    /\ Len(stage_commands) >= 3
    /\ Len(stage_commands[2].output) = 2
    /\ is_step_command(stage_commands[3].command)
    /\ Len(stage_commands[3].command) = 6

\* Where the lines of stage command i start in the report: after the header
\* and after the lines of the stage commands before it.
RECURSIVE lines_before(_)
lines_before(i) ==
    IF i = 1 THEN 1
    ELSE lines_before(i - 1) + 4 + Len(stage_commands[i - 1].output)

lists_stage_commands(contents) ==
    /\ Len(contents) = lines_before(Len(stage_commands) + 1)
    /\ \A i \in 1..Len(stage_commands) :
        LET at == lines_before(i)
            stage_command == stage_commands[i]
        IN  /\ contents[at + 1] = "<h2><pre>" \o repr(stage_command.command) \o "<pre></h2>"
            /\ contents[at + 2] =
                "<p><b>returncode: " \o str_returncode(stage_command.returncode) \o "</b></p>"
            /\ \A l \in 1..Len(stage_command.output) :
                    contents[at + 3 + l] = stage_command.output[l]

(* C8: the report. At most one file is ever written; it is written only     *)
(* once the run has left the workspace (after the removal when the create   *)
(* had succeeded); and once trigger has returned or raised, on success and  *)
(* on failure alike, exactly one write was made, to                         *)
(* /opt/rlci/html/index.html, and it lists every stage command of the log   *)
(* in order with its command, its returncode and its output lines.          *)
C8_Report ==
    /\ Len(files) <= 1
    /\ files # <<>> =>
        /\ pc \in {"return", "closed"}
        /\ exited_with(stage_commands[1], {0}) =>
                is_remove_command(Last(process_events).data)
    /\ (retval # None \/ run_ended) =>
        /\ Len(files) = 1
        /\ files[1].path = "/opt/rlci/html/index.html"
        /\ lists_stage_commands(files[1].contents)

\* A failed run has ended whose report lists a command with output.
C8_Witness ==
    /\ run_ended
    /\ retval = Some(FALSE)
    /\ Len(stage_commands) = 3
    /\ stage_commands[2].output # <<>>
    /\ Len(files) = 1



-----------------------------------------------------------------------------
(* The answers of the engine server. *)

\* The handler process has ended: it answered, or an exception left it.
handler_ended == pc = "closed"

\* The spawn of the last step the run came to raised OSError, and nothing
\* else went wrong: the removal that followed it exited 0.
step_spawn_failed ==
    /\ raised = <<"OSError">>
    /\ Len(stage_commands) >= 3
    /\ is_remove_command(Last(stage_commands).command)
    /\ Last(stage_commands).returncode # None

\* The stage command of the step whose spawn failed.
unspawned_step == stage_commands[Len(stage_commands) - 1]

(* C11: when the request names a pipeline that is not in the store, the     *)
(* reply is exactly False, no run is started and no workspace-create        *)
(* PROCESS event is emitted. Stated of every handler that has ended.        *)
C11_UnknownPipeline ==
    (handler_ended /\ request \notin DOMAIN pipelines) =>
        /\ connection = <<"False">>
        /\ stage_commands = <<>>
        /\ ~has("PROCESS", create_create_command)

(* C12: a step whose child cannot be spawned is treated as a non-zero exit: *)
(* its stage command has a returncode, the workspace is released, STDOUT    *)
(* "FAIL" is emitted and trigger returns False.                             *)
C12_SpawnFailure ==
    (run_ended /\ step_spawn_failed) =>
        /\ is_step_command(unspawned_step.command)
        /\ unspawned_step.returncode # None
        /\ has("STDOUT", "FAIL")
        /\ successful = Some(FALSE)
        /\ connection = <<"False">>

(* C13: every handler that has ended called trigger once and wrote exactly  *)
(* one reply, True when trigger returned true and False when it returned    *)
(* false, and the SERVER_RESPONSE event carries the payload of the reply.   *)
C13_OneReply ==
    handler_ended =>
        /\ retval # None
        /\ connection = << encode_bool(Value(retval)) >>
        /\ Last(events) = Event("SERVER_RESPONSE", connection[1])

-----------------------------------------------------------------------------
(* rlci-server-listen.py: the listener binds the socket once, makes it its  *)
(* descriptor 0 and calls one handler process after the other. Each handler *)
(* inherits the socket and serves one connection of it.                     *)

MaxHandlers == 3      \* most handler processes the listener calls
MaxConnections == 3   \* most connections the clients make

\* Engine.__init__: the store of a server process.
engine_pipelines ==
    [n \in {"rlci", "test-pipeline"} |->
        IF n = "rlci" THEN rlci_pipeline ELSE test_pipeline]

\* The names the clients ask for.
ClientRequests == Requests \ {"test"}

\* A handler process: its exit code (None while it runs) and the requests of
\* the connections it has accepted.
Handler(returncode, requests) == [returncode |-> returncode, requests |-> requests]

\* The interpreter exits 1 when an exception leaves the program, else 0.
exit_code(exception) == IF exception = None THEN 0 ELSE 1

\* subprocess.check_call: a handler that exits non-zero raises in the listener.
check_call_raises(handler) == handler.returncode # Some(0)

\* subprocess.call hands back the exit code of the handler, whatever it is.
call_raises(handler) == FALSE

\* subprocess.Popen: the listener goes on while the handler runs.
popen_returns(handler) == TRUE

\* subprocess.call returns when the handler has exited.
call_returns(handler) == handler.returncode # None

alive == {i \in 1..Len(handlers) : handlers[i].returncode = None}

\* The socket lives as long as a process holds a descriptor of it: the
\* listener, or a handler that inherited it.
socket_bound == listener \in {"loop", "call"} \/ alive # {}

RECURSIVE accepted(_)
accepted(hs) == IF hs = <<>> THEN 0 ELSE Len(Head(hs).requests) + accepted(Tail(hs))

\* No server process runs.
no_handler ==
    /\ stage_commands = <<>>
    /\ events = <<>>
    /\ files = <<>>
    /\ pc = "none"
    /\ request = ""
    /\ name = ""
    /\ steps = <<>>
    /\ step_index = 1
    /\ variables = EmptyDict
    /\ workspace = None
    /\ phase = "create"
    /\ child = NoChild
    /\ output = <<>>
    /\ exc = None
    /\ raised = <<>>
    /\ retval = None
    /\ successful = None
    /\ connection = <<>>
    /\ given = {}
    /\ spawns = <<>>

InitListen ==
    /\ subprocess \in {"real", "null"}
    /\ responses = <<>>
    /\ pipelines = engine_pipelines
    /\ no_handler
    /\ listener = "loop"
    /\ backlog = <<>>
    /\ handlers = <<>>
    /\ no_job
    /\ no_caller
    /\ no_other

\* UnixDomainSocketClient.send_request: connect and send; the connection
\* waits in the queue of the listening socket.
Connect ==
    /\ socket_bound
    /\ Len(backlog) + accepted(handlers) < MaxConnections
    /\ \E r \in ClientRequests : backlog' = Append(backlog, r)
    /\ UNCHANGED <<engine_vars, listener, handlers, job_vars, caller_vars, other_vars>>

\* subprocess.call(sys.argv[2:]): a new handler process, which builds its
\* engine and server and blocks in accept.
Call ==
    /\ listener = "loop"
    /\ Len(handlers) < MaxHandlers
    /\ listener' = "call"
    /\ handlers' = Append(handlers, Handler(None, <<>>))
    /\ responses' = <<>>
    /\ pipelines' = engine_pipelines
    /\ stage_commands' = <<>>
    /\ events' = <<>>
    /\ files' = <<>>
    /\ pc' = "accept"
    /\ request' = ""
    /\ name' = ""
    /\ steps' = <<>>
    /\ step_index' = 1
    /\ variables' = EmptyDict
    /\ workspace' = None
    /\ phase' = "create"
    /\ child' = NoChild
    /\ output' = <<>>
    /\ exc' = None
    /\ raised' = <<>>
    /\ retval' = None
    /\ successful' = None
    /\ connection' = <<>>
    /\ spawns' = <<>>
    /\ UNCHANGED <<subprocess, given, backlog, job_vars, caller_vars, other_vars>>

\* UnixDomainSocketServer.start: s.accept() takes the oldest connection,
\* read_object reads its request and the handler is called with it.
Accept ==
    /\ pc = "accept"
    /\ backlog # <<>>
    /\ handle_request(Head(backlog))
    /\ backlog' = Tail(backlog)
    /\ handlers' = [handlers EXCEPT ![Len(handlers)].requests = Append(@, Head(backlog))]
    /\ UNCHANGED <<given, spawns, listener, job_vars, caller_vars, other_vars>>

\* start has returned, or an exception has left it: the handler process exits.
HandlerExit ==
    /\ pc = "closed"
    /\ pc' = "none"
    /\ handlers' = [handlers EXCEPT ![Len(handlers)].returncode = Some(exit_code(exc))]
    /\ UNCHANGED <<subprocess, responses, pipelines, stage_commands, events, files,
                   request, name, steps, step_index, variables, workspace, phase,
                   child, output, exc, raised, retval, successful, connection>>
    /\ UNCHANGED <<given, spawns, listener, backlog, job_vars, caller_vars, other_vars>>

\* subprocess.call returns and `while True` goes round.
Return ==
    /\ listener = "call"
    /\ call_returns(Last(handlers))
    /\ listener' = IF call_raises(Last(handlers)) THEN "exited" ELSE "loop"
    /\ UNCHANGED <<engine_vars, backlog, handlers, job_vars, caller_vars, other_vars>>

NextListen ==
    \/ Connect
    \/ Call
    \/ Accept
    \/ EnterWorkspace
    \/ RunStep
    \/ ExitWorkspace
    \/ ReadLine
    \/ Wait
    \/ FinishTrigger
    \/ Reply
    \/ HandlerExit
    \/ Return

SpecListen == InitListen /\ [][NextListen]_vars

\* What the listener and its handlers do without a client's help. The
\* operating system runs whichever of them is not blocked, and every child
\* of a step ends.
ServerStep ==
    \/ Call
    \/ Accept
    \/ EnterWorkspace
    \/ RunStep
    \/ ExitWorkspace
    \/ ReadLine
    \/ Wait
    \/ FinishTrigger
    \/ Reply
    \/ HandlerExit
    \/ Return

SpecListenFair == SpecListen /\ WF_vars(ServerStep)

\* Handler i has ended abnormally.
crashed(i) ==
    /\ i <= Len(handlers)
    /\ handlers[i].returncode # None
    /\ handlers[i].returncode # Some(0)

\* Handler i has accepted a connection and has ended.
handled(i) ==
    /\ i <= Len(handlers)
    /\ handlers[i].requests # <<>>
    /\ handlers[i].returncode # None

(* C14: a crashed handler does not take down the listener. The socket stays *)
(* bound in every state, and whenever a handler has ended abnormally and a  *)
(* connection waits, the next handler accepts and handles a connection.     *)
C14_ListenerSurvives ==
    /\ []socket_bound
    /\ \A i \in 1..(MaxHandlers - 1) :
            (crashed(i) /\ backlog # <<>>) ~> handled(i + 1)

\* After a handler that crashed, the next one has answered True.
C14_Witness ==
    /\ Len(handlers) = 2
    /\ crashed(1)
    /\ handled(2)
    /\ connection = <<"True">>

(* C15: requests are handled strictly sequentially. At most one handler is  *)
(* alive, and it is the last one called: the listener calls the next only   *)
(* after the previous one has exited. A pipeline run in progress is that    *)
(* handler's, and every handler accepts one connection, no more.            *)
C15_OneHandlerAtATime ==
    /\ Cardinality(alive) <= 1
    /\ alive \subseteq {Len(handlers)}
    /\ listener = "loop" => alive = {}
    /\ pc # "none" => alive = {Len(handlers)}
    /\ \A i \in 1..Len(handlers) :
            /\ Len(handlers[i].requests) <= 1
            /\ handlers[i].returncode # None => Len(handlers[i].requests) = 1

\* The second handler runs a step of its pipeline after the first has exited.
C15_Witness ==
    /\ Len(handlers) = 2
    /\ handlers[1].returncode # None
    /\ handlers[2].requests # <<>>
    /\ pc = "reading"
    /\ phase = "step"

-----------------------------------------------------------------------------
(* jobcontroller2.py: the job controller runs the tasks of a job in batches.*)
(* A pass over the waiting tasks skips or promotes those whose predecessors *)
(* have finished; the promoted tasks run together until all have finished.  *)

OK == 0
FAILED == 1
SKIPPED == 2

Range(s) == {s[i] : i \in 1..Len(s)}

\* Task(name).command(work).wait_for(..)...ignore_fail_for(fails).ignore_skip_for(skips)
Task(task_name, work, wait, fails, skips) ==
    [name |-> task_name, command |-> work, wait |-> wait, fails |-> fails, skips |-> skips]

\* The job of test(), with the whitelists of Task-4 and Task-5 left open.
\*
\*                +----> Task-2 ---->|
\*   Task-1 ----->|                  |-----> Task-4  ---->  Task-5
\*                +----> Task-3 ---->|
\*                +----> Task-6
diamond(fails4, fails5, skips5) ==
    << Task("Task-1", "work", <<>>, {}, {}),
       Task("Task-2", "work", <<"Task-1">>, {}, {}),
       Task("Task-3", "work", <<"Task-1">>, {}, {}),
       Task("Task-4", "work", <<"Task-2", "Task-3">>, fails4, {}),
       Task("Task-5", "work", <<"Task-4">>, fails5, skips5),
       Task("Task-6", "", <<"Task-1">>, {}, {}) >>

\* A chain added in the reverse of its order of execution.
reversed_chain(fails3) ==
    << Task("Task-3", "work", <<"Task-2">>, fails3, {}),
       Task("Task-2", "work", <<"Task-1">>, {}, {}),
       Task("Task-1", "work", <<>>, {}, {}) >>

\* A task that waits for a name no task of the job has.
dangling ==
    << Task("Task-1", "work", <<>>, {}, {}),
       Task("Task-2", "work", <<"Task-9">>, {}, {}) >>

\* A task that waits for two tasks of which one waits for the other, so
\* that they finish in different batches.
staggered(fails2) ==
    << Task("Task-1", "work", <<>>, {}, {}),
       Task("Task-2", "work", <<"Task-1">>, fails2, {}),
       Task("Task-3", "work", <<"Task-1", "Task-2">>, {}, {}) >>

Jobs ==
    {diamond(f4, f5, s5) : f4 \in {{}, {"Task-2"}},
                           f5 \in {{}, {"Task-4"}},
                           s5 \in {{}, {"Task-4"}}}
        \cup {reversed_chain(f3) : f3 \in {{}, {"Task-2"}}}
        \cup {staggered(f2) : f2 \in {{}, {"Task-1"}}}
        \cup {dangling}

names == {job[i].name : i \in 1..Len(job)}

\* The task of the job with this name.
task(n) == job[CHOOSE i \in 1..Len(job) : job[i].name = n]

\* The line "[JOBCTRL] Task started : ..." or "Task finished: ... Status: ...".
Line(kind, n, st) == [kind |-> kind, task |-> n, status |-> st]

\* A controller for which no task is ever ready.
predecessors_always_awaited(t, finished) == TRUE

\* A controller that starts every waiting task at once.
predecessors_never_awaited(t, finished) == FALSE

\* A controller that looks at a task as soon as one task it waits for has
\* finished.
predecessors_none_finished(t, finished) ==
    /\ t.wait # <<>>
    /\ \A i \in 1..Len(t.wait) : t.wait[i] \notin Range(finished)

\* JobController._predecessors_not_finished
predecessors_not_finished(t, finished) ==
    \E i \in 1..Len(t.wait) : t.wait[i] \notin Range(finished)

\* A controller on which a failure does not reach the dependants.
predecessors_has_skipped(t, finished, st) ==
    \E i \in 1..Len(finished) :
        finished[i] \in Range(t.wait) /\ st[finished[i]] = SKIPPED
            /\ finished[i] \notin t.skips

\* A controller on which a skip does not reach the dependants.
predecessors_has_failed(t, finished, st) ==
    \E i \in 1..Len(finished) :
        finished[i] \in Range(t.wait) /\ st[finished[i]] = FAILED
            /\ finished[i] \notin t.fails

\* A controller that never skips.
predecessors_never_skip(t, finished, st) == FALSE

\* JobController._predecessors_has_failed_or_skipped
predecessors_has_failed_or_skipped(t, finished, st) ==
    LET skipped == SelectSeq(finished, LAMBDA n :
                        n \in Range(t.wait) /\ st[n] = SKIPPED /\ n \notin t.skips)
        failed == SelectSeq(finished, LAMBDA n :
                        n \in Range(t.wait) /\ st[n] = FAILED /\ n \notin t.fails)
    IN  Len(skipped) + Len(failed) > 0

\* The for loop of _move_tasks_from_wait_queue over the tasks `ts`, with
\* _can_start for each: a task whose predecessors have not all finished is
\* left; one with a failed or skipped predecessor is skipped and reported
\* finished at once (do_skip, task_finished); any other is to be started.
RECURSIVE can_start_each(_, _)
can_start_each(ts, c) ==
    IF ts = <<>> THEN c
    ELSE LET t == task(Head(ts))
         IN  IF predecessors_not_finished(t, c.finished)
             THEN can_start_each(Tail(ts), c)
             ELSE IF predecessors_has_failed_or_skipped(t, c.finished, c.status)
             THEN can_start_each(Tail(ts),
                    [c EXCEPT !.status[t.name] = SKIPPED,
                              !.finished = Append(@, t.name),
                              !.log = Append(@, Line("finished", t.name, SKIPPED))])
             ELSE can_start_each(Tail(ts), [c EXCEPT !.start = Append(@, t.name)])

\* A waiting list from which nothing is taken out.
keep_all(list, others) == list

\* [task for task in self._waiting_tasks if task not in others]
not_in(list, others) == SelectSeq(list, LAMBDA n : n \notin Range(others))

\* The "Task started" lines of a batch, in the order the event loop runs them.
started_lines(collector) ==
    [i \in 1..Len(collector) |-> Line("started", collector[i], OK)]

\* A task whose status stays as it was when its work raises.
except_nothing(st) == st

\* except Exception as ex: self._status = FAILED
except_Exception(st) == FAILED

\* An event loop that is left while tasks of the batch still run.
run_until_any(running) == TRUE

\* new_loop.run_until_complete(asyncio.wait(tasks)) returns when each task
\* of the batch is done: its callback has taken it off the running tasks.
run_until_complete(running) == running = <<>>

\* `if self._work_to_be_done: self._result = eval(...)`: only a task with
\* work evaluates anything that can raise.
may_raise(t) == t.command # ""

InitJob ==
    /\ subprocess = "null"
    /\ responses = <<>>
    /\ pipelines = engine_pipelines
    /\ no_handler
    /\ no_listener
    /\ no_caller
    /\ no_other
    /\ job \in Jobs
    /\ status = [n \in names |-> OK]
    /\ waiting_tasks = [i \in 1..Len(job) |-> job[i].name]
    /\ start_tasks = <<>>
    /\ running_tasks = <<>>
    /\ finished_tasks = <<>>
    /\ controller = "loop"
    /\ job_log = <<>>
    /\ result = [n \in names |-> None]

\* One turn of the while loop of start: _move_tasks_from_wait_queue, then
\* _do_start_tasks up to run_until_complete, where every task of the batch
\* has been started and sleeps.
ProcessTasks ==
    /\ controller = "loop"
    /\ Len(waiting_tasks) + Len(running_tasks) + Len(start_tasks) > 0
    /\ LET c == can_start_each(waiting_tasks,
                    [finished |-> finished_tasks, status |-> status,
                     start |-> start_tasks, log |-> job_log])
           collector == c.start
       IN  /\ waiting_tasks' = not_in(not_in(waiting_tasks, c.start), c.finished)
           /\ status' = c.status
           /\ finished_tasks' = c.finished
           /\ start_tasks' = <<>>
           /\ running_tasks' = running_tasks \o collector
           /\ job_log' = c.log \o started_lines(collector)
           /\ controller' = IF Len(collector) > 0 THEN "batch" ELSE "loop"
    /\ UNCHANGED <<job, result, engine_vars, listener_vars, caller_vars, other_vars>>

\* Task.run of a running task ends: its work has raised (status FAILED) or
\* not, and the callback task_finished moves it to the finished tasks.
FinishTask ==
    /\ controller = "batch"
    /\ \E i \in 1..Len(running_tasks) :
        LET n == running_tasks[i]
        IN  \E raises \in {r \in BOOLEAN : r => may_raise(task(n))} :
            LET st == IF raises THEN except_Exception(status[n]) ELSE status[n]
            IN  /\ status' = [status EXCEPT ![n] = st]
                /\ result' = [result EXCEPT ![n] =
                        IF raises THEN "error"
                        ELSE IF may_raise(task(n)) THEN "value" ELSE None]
                /\ finished_tasks' = Append(finished_tasks, n)
                /\ running_tasks' = SelectSeq(running_tasks, LAMBDA m : m # n)
                /\ job_log' = Append(job_log, Line("finished", n, st))
    /\ UNCHANGED <<job, waiting_tasks, start_tasks, controller, engine_vars, listener_vars, caller_vars, other_vars>>

\* run_until_complete returns when every task of the batch has finished.
BatchDone ==
    /\ controller = "batch"
    /\ run_until_complete(running_tasks)
    /\ controller' = "loop"
    /\ UNCHANGED <<job, status, waiting_tasks, start_tasks, running_tasks,
                   finished_tasks, job_log, result, engine_vars, listener_vars,
                   caller_vars, other_vars>>

\* The while loop of start ends: "Job finished" is printed and start returns.
JobFinished ==
    /\ controller = "loop"
    /\ Len(waiting_tasks) + Len(running_tasks) + Len(start_tasks) = 0
    /\ controller' = "done"
    /\ UNCHANGED <<job, status, waiting_tasks, start_tasks, running_tasks,
                   finished_tasks, job_log, result, engine_vars, listener_vars,
                   caller_vars, other_vars>>

NextJob ==
    \/ ProcessTasks
    \/ FinishTask
    \/ BatchDone
    \/ JobFinished

SpecJob == InitJob /\ [][NextJob]_vars

\* start runs on: the loop is not suspended, and the work of every task ends.
SpecJobFair == SpecJob /\ WF_vars(NextJob)

-----------------------------------------------------------------------------
(* What a reader of the job's log and of its tasks observes. *)

\* The names task n waits for.
predecessors(n) == Range(task(n).wait)

\* The transitive predecessors of n, over chains of at most k edges.
RECURSIVE ancestors_within(_, _)
ancestors_within(n, k) ==
    IF k = 0 THEN {}
    ELSE predecessors(n)
            \cup UNION {ancestors_within(p, k - 1) : p \in predecessors(n) \cap names}

ancestors(n) == ancestors_within(n, Len(job))

\* The waitFor graph is acyclic and names only tasks of the job.
valid_job ==
    \A n \in names : predecessors(n) \subseteq names /\ n \notin ancestors(n)

\* The work of n was started: "Task started" was printed for it.
started(n) == \E i \in 1..Len(job_log) : job_log[i] = Line("started", n, OK)

\* "Task finished" was printed for a before line j of the log.
finished_before(a, j) ==
    \E i \in 1..(j - 1) : job_log[i].kind = "finished" /\ job_log[i].task = a

\* start has returned.
job_done == controller = "done"

\* The job is the diamond of test().
is_diamond == Len(job) = 6

\* Some predecessor of n failed or was skipped and n does not whitelist it.
requires_skip(n) ==
    \E p \in predecessors(n) \cap names :
        \/ status[p] = FAILED /\ p \notin task(n).fails
        \/ status[p] = SKIPPED /\ p \notin task(n).skips

C17_Promote ==
    \A n \in names :
        (n \in Range(waiting_tasks) /\ n \notin Range(waiting_tasks')) =>
            /\ predecessors(n) \subseteq Range(finished_tasks')
            /\ IF requires_skip(n)'
               THEN /\ status'[n] = SKIPPED
                    /\ n \in Range(finished_tasks')
                    /\ n \notin Range(running_tasks')
               ELSE /\ status'[n] = OK
                    /\ n \in Range(running_tasks')
                    /\ n \notin Range(finished_tasks')

\* In a finished job the skipped tasks are those a predecessor required to
\* skip, and all others were run.
C17_Outcome ==
    job_done =>
        \A n \in names :
            /\ status[n] = SKIPPED <=> requires_skip(n)
            /\ started(n) <=> ~requires_skip(n)

(* C17: promotion rule. A waiting task whose predecessors are all terminal  *)
(* becomes skipped iff some predecessor is failed and not in its ignoreFail *)
(* or skipped and not in its ignoreSkip; otherwise it is started.           *)
C17_PromotionRule == []C17_Outcome /\ [][C17_Promote]_vars

\* Task-4 was skipped for the failure of Task-3 and Task-5, which whitelists
\* the skip of Task-4, ran.
C17_Witness ==
    /\ job_done
    /\ is_diamond
    /\ status["Task-3"] = FAILED
    /\ status["Task-4"] = SKIPPED
    /\ status["Task-5"] = OK

RECURSIVE propagates(_, _, _)
propagates(a, b, k) ==
    \/ a \in predecessors(b) /\ a \notin task(b).fails
    \/ /\ k > 0
       /\ \E m \in predecessors(b) \cap names :
            m \notin task(b).skips /\ propagates(a, m, k - 1)

(* C19: skip cascade. In a finished job a failure has skipped every task it *)
(* reaches over a chain without whitelisting, and every task none of whose  *)
(* predecessors failed or was skipped was run to a terminal state of its    *)
(* own. In the diamond with Task-2 failed, Task-4 not whitelisting it and   *)
(* Task-5 not whitelisting Task-4: Task-4 and Task-5 are skipped, Task-3    *)
(* and Task-6 were run.                                                     *)
C19_SkipCascade ==
    job_done =>
        /\ \A a \in names : \A b \in names :
                (status[a] = FAILED /\ propagates(a, b, Len(job))) =>
                    status[b] = SKIPPED /\ ~started(b)
        /\ \A n \in names :
                (\A p \in predecessors(n) : status[p] = OK) =>
                    started(n) /\ status[n] \in {OK, FAILED}
        /\ (/\ is_diamond
            /\ status["Task-1"] = OK
            /\ status["Task-2"] = FAILED
            /\ "Task-2" \notin task("Task-4").fails
            /\ "Task-4" \notin task("Task-5").skips) =>
                /\ status["Task-4"] = SKIPPED
                /\ status["Task-5"] = SKIPPED
                /\ started("Task-3") /\ status["Task-3"] \in {OK, FAILED}
                /\ started("Task-6") /\ status["Task-6"] \in {OK, FAILED}

\* The diamond without whitelists has finished with Task-2 failed.
C19_Witness ==
    /\ job_done
    /\ is_diamond
    /\ \A n \in names : task(n).fails = {} /\ task(n).skips = {}
    /\ status["Task-2"] = FAILED
    /\ status["Task-5"] = SKIPPED
    /\ started("Task-6")

\* When start has returned nothing is waiting, to start or running, and
\* every task is in the finished list, once, with a terminal status.
C20_AllFinished ==
    job_done =>
        /\ waiting_tasks = <<>> /\ start_tasks = <<>> /\ running_tasks = <<>>
        /\ Range(finished_tasks) = names
        /\ Len(finished_tasks) = Len(job)
        /\ \A n \in names : status[n] \in {OK, FAILED, SKIPPED}

(* C20: termination. For a job whose waitFor graph is acyclic and names     *)
(* only its own tasks, start eventually returns; and when it has returned   *)
(* every task is finished and none is waiting, ready or running.            *)
C20_Termination == (valid_job ~> job_done) /\ []C20_AllFinished

\* The chain added in reverse order has finished.
C20_Witness ==
    /\ job_done
    /\ valid_job
    /\ Len(job) = 3
    /\ job[1].name = "Task-3"
    /\ finished_tasks = <<"Task-1", "Task-2", "Task-3">>

-----------------------------------------------------------------------------
(* The run of a pipeline without steps, and the stage-command log. *)

C29_ReturncodeSet ==
    \A i \in 1..Len(stage_commands) :
        stage_commands[i].returncode = None =>
            i = Len(stage_commands) /\ pc = "reading"

-----------------------------------------------------------------------------
(* One Engine triggered time after time by a program that calls             *)
(* Engine.trigger itself: the DB, and with it the stage-command log, lives  *)
(* on from run to run. The runner spawns real children and answers equal    *)
(* commands equally.                                                         *)

MaxTriggers == 3

\* Two pipelines saved with DB.save_pipeline next to the engine's own: one
\* binds the variable the other reads.
binds_pipeline ==
    [name |-> "BINDS", steps |-> <<Step(<<Str("cat"), Str("path.txt")>>, Some("path"))>>]

reads_pipeline ==
    [name |-> "READS", steps |-> <<Step(<<Str("cd"), Ref("path")>>, None)>>]

stored_pipelines ==
    [n \in {"rlci", "test-pipeline", "binds", "reads"} |->
        IF n = "rlci" THEN rlci_pipeline
        ELSE IF n = "test-pipeline" THEN test_pipeline
        ELSE IF n = "binds" THEN binds_pipeline
        ELSE reads_pipeline]

\* The names the caller triggers.
TriggerNames == {"binds", "reads", "does-not-exist"}

InitRetrigger ==
    /\ subprocess = "same"
    /\ responses = <<>>
    /\ pipelines = stored_pipelines
    /\ stage_commands = <<>>
    /\ events = <<>>
    /\ files = <<>>
    /\ pc = "idle"
    /\ request = ""
    /\ name = ""
    /\ steps = <<>>
    /\ step_index = 1
    /\ variables = EmptyDict
    /\ workspace = None
    /\ phase = "create"
    /\ child = NoChild
    /\ output = <<>>
    /\ exc = None
    /\ raised = <<>>
    /\ retval = None
    /\ successful = None
    /\ connection = <<>>
    /\ given = {}
    /\ spawns = <<>>
    /\ calls = <<>>
    /\ no_listener
    /\ no_job
    /\ no_other

\* engine.trigger(name): the caller's next call, up to the with statement of
\* StageExecution.run.
Trigger ==
    /\ pc = "idle"
    /\ Len(calls) < MaxTriggers
    /\ \E r \in TriggerNames : handle_request(r)
    /\ UNCHANGED <<given, spawns, calls, listener_vars, job_vars, other_vars>>

\* Engine.trigger is back at its caller, with True or False or with the
\* exception that left it.
Returned ==
    /\ pc \in {"return", "closed"}
    /\ calls' = Append(calls, IF pc = "return" THEN encode_bool(Value(retval))
                                               ELSE Value(exc))
    /\ pc' = "idle"
    /\ exc' = None
    /\ retval' = None
    /\ UNCHANGED <<subprocess, responses, pipelines, stage_commands, events, files,
                   request, name, steps, step_index, variables, workspace, phase,
                   child, output, raised, successful, connection, given, spawns>>
    /\ UNCHANGED <<listener_vars, job_vars, other_vars>>

NextRetrigger ==
    \/ Trigger
    \/ EnterWorkspace
    \/ RunStep
    \/ ExitWorkspace
    \/ ReadLine
    \/ Wait
    \/ FinishTrigger
    \/ Returned

SpecRetrigger == InitRetrigger /\ [][NextRetrigger]_vars

(* What a test that triggers several runs observes of each of them. *)

\* Engine.trigger prints "Triggered <name>" when a run begins.
is_triggered(e) ==
    /\ e.kind = "STDOUT"
    /\ \E r \in DOMAIN pipelines : e.data = "Triggered " \o pipelines[r].name

\* Where in the events each run begins, oldest run first.
run_starts ==
    SelectSeq([i \in 1..Len(events) |-> i], LAMBDA i : is_triggered(events[i]))

runs == 1..Len(run_starts)

\* The events of run k: from its "Triggered" line to the next one.
run_events(k) ==
    SubSeq(events, run_starts[k],
           IF k < Len(run_starts) THEN run_starts[k + 1] - 1 ELSE Len(events))

\* The pipeline of run k, as printed.
run_name(k) == events[run_starts[k]].data

\* events.filter("PROCESS") of run k
run_process_events(k) == SelectSeq(run_events(k), LAMBDA e : e.kind = "PROCESS")

\* Run k is over: trigger is back at its caller.
run_over(k) == k < Len(run_starts) \/ pc = "idle"

is_prefix(a, b) == Len(a) <= Len(b) /\ SubSeq(b, 1, Len(a)) = a

\* The step of run k ran: its command is the second of the run.
step_ran(k) == Len(run_process_events(k)) = 3

(* C23: two runs of the same pipeline on one engine, against a runner that  *)
(* answers equal commands equally, emit the same PROCESS events: a run that *)
(* is over emitted exactly those of every earlier run of its pipeline, and  *)
(* a run under way has emitted the first of them. No binding and no logged  *)
(* command of an earlier run shows in a later one.                           *)
C23_SameProcessEvents ==
    \A i \in runs : \A j \in runs :
        (i < j /\ run_name(i) = run_name(j)) =>
            IF run_over(j)
            THEN run_process_events(j) = run_process_events(i)
            ELSE is_prefix(run_process_events(j), run_process_events(i))

\* "reads" was run, then "binds" bound the variable "reads" asks for, then
\* "reads" was run again.
C23_Witness ==
    /\ pc = "idle"
    /\ Len(run_starts) = 3
    /\ run_name(1) = "Triggered READS"
    /\ run_name(2) = "Triggered BINDS"
    /\ run_name(3) = "Triggered READS"
    /\ step_ran(2)
    /\ calls[2] = "True"
    /\ calls[3] = "KeyError"

(* C30: every run starts from an empty stage-command log: at any time after *)
(* a run began the log holds exactly the commands of the most recent run,   *)
(* in the order they were run, and the report written last, once trigger is *)
(* back, is the report of that log.                                          *)
C30_LogOfLastRun ==
    /\ runs # {} =>
        LET last == run_process_events(Len(run_starts))
        IN  /\ Len(stage_commands) = Len(last)
            /\ \A i \in 1..Len(last) : stage_commands[i].command = last[i].data
    /\ (pc = "idle" /\ files # <<>>) =>
        \E n \in DOMAIN pipelines :
            files[Len(files)].contents = report_lines(n, stage_commands)

\* A third run is over, after two runs that each ran commands, and its log
\* holds its own three commands.
C30_Witness ==
    /\ pc = "idle"
    /\ Len(run_starts) = 3
    /\ Len(files) = 3
    /\ \A k \in runs : step_ran(k)
    /\ Len(stage_commands) = 3

-----------------------------------------------------------------------------
(* rlci/cli.py: the command line interface. The server it asks is its       *)
(* environment: a connection may fail, and what comes back is any payload.  *)

\* A str: its text, and whether every character of it is ASCII.
Text(text, ascii) == [text |-> text, ascii |-> ascii]

\* str.encode("ascii") raises UnicodeEncodeError on a character outside ASCII.
encode_raises(str) == ~str.ascii

\* str.encode("ascii") of a str of ASCII characters: the bytes of its text.
encode(str) == str.text

SocketPath == "/tmp/rlci-engine.socket"

\* What recv may return from a real server: an answer of the engine server,
\* or nothing when the handler closed the connection without an answer.
Payloads == {encode_bool(TRUE), encode_bool(FALSE), ""}

\* What a test configures on UnixDomainSocketClient.create_null: payloads
\* and exceptions.
ClientResponse(payload, exception) == [payload |-> payload, exception |-> exception]

ClientResponses ==
    { ClientResponse(encode_bool(TRUE), None),
      ClientResponse(encode_bool(FALSE), None),
      ClientResponse("", Some("ValueError")) }

\* The arguments the program is started with.
ArgsChoices ==
    { <<>>,
      <<Text("status", TRUE)>>,
      <<Text("trigger", TRUE)>>,
      <<Text("trigger", TRUE), Text("rlci", TRUE)>>,
      <<Text("trigger", TRUE), Text("test-pipeline", TRUE)>>,
      <<Text("trigger", TRUE), Text("pipeline with an e acute", FALSE)>>,
      <<Text("trigger", TRUE), Text("rlci", TRUE), Text("more", TRUE)>> }

\* A response that is anything but empty counts.
is_not_empty(response) == response # ""

\* response == b'True'
is_successful(response) == response = "True"

\* Everything but the command line interface.
outside_cli ==
    <<engine_vars, listener_vars, job_vars, caller_vars, zero_vars, server_vars,
      sample3_vars, more_vars>>

no_engine ==
    /\ subprocess = "real"
    /\ responses = <<>>
    /\ pipelines = engine_pipelines
    /\ given = {}
    /\ spawns = <<>>
    /\ no_handler
    /\ no_listener
    /\ no_caller

InitCLI ==
    /\ no_engine
    /\ no_job
    /\ args \in ArgsChoices
    /\ client \in {"real", "null"}
    /\ client_responses \in IF client = "null"
                            THEN SeqsUpTo(ClientResponses, 1)
                            ELSE {<<>>}
    /\ cli = "run"
    /\ cli_events = <<>>
    /\ cli_response = None
    /\ cli_exit = None
    /\ no_zero
    /\ no_server
    /\ no_sample3
    /\ no_more

\* sys.exit(code)
sys_exit(code) ==
    /\ cli' = "exited"
    /\ cli_exit' = Some(code)

\* CLI.run: the usage line and exit 1, or CLI.trigger up to send_request;
\* a name that does not encode leaves the try block at once.
Run ==
    /\ cli = "run"
    /\ IF Len(args) >= 1 /\ args[1] = Text("trigger", TRUE)
       THEN IF Len(args) = 1
            THEN /\ cli_events' = Append(cli_events,
                        Event("STDOUT", "Usage: python3 rlci-cli.py trigger <pipeline>"))
                 /\ sys_exit(1)
            ELSE IF encode_raises(args[2])
            THEN /\ sys_exit(1)
                 /\ UNCHANGED cli_events
            ELSE /\ cli' = "connect"
                 /\ UNCHANGED <<cli_events, cli_exit>>
       ELSE /\ cli_events' = Append(cli_events,
                        Event("STDOUT", "Usage: python3 rlci-cli.py trigger"))
            /\ sys_exit(1)
    /\ UNCHANGED <<args, client, client_responses, cli_response>>
    /\ UNCHANGED outside_cli

\* send_request: socket, connect and notify. A real connect raises when no
\* server listens on the path; the except clause then exits with 1.
ConnectClient ==
    /\ cli = "connect"
    /\ \/ /\ cli_events' = Append(cli_events,
                Event("SERVER_REQUEST", <<SocketPath, encode(args[2])>>))
          /\ cli' = "write"
          /\ UNCHANGED cli_exit
       \/ /\ client = "real"
          /\ sys_exit(1)
          /\ UNCHANGED cli_events
    /\ UNCHANGED <<args, client, client_responses, cli_response>>
    /\ UNCHANGED outside_cli

\* write_object: sendall. On a real socket it raises when the server is gone.
WriteObject ==
    /\ cli = "write"
    /\ \/ /\ cli' = "read"
          /\ UNCHANGED cli_exit
       \/ /\ client = "real"
          /\ sys_exit(1)
    /\ UNCHANGED <<args, client, client_responses, cli_events, cli_response>>
    /\ UNCHANGED outside_cli

\* The rest of CLI.trigger once recv returned `payload`.
exit_on(payload) ==
    /\ cli_response' = Some(payload)
    /\ sys_exit(IF is_successful(payload) THEN 0 ELSE 1)

\* read_object: recv(1024), then successful and sys.exit. The null socket
\* gives its next configured response, or b'' when none is left; an
\* exception is caught by the except clause.
ReadObject ==
    /\ cli = "read"
    /\ \/ /\ client = "null"
          /\ client_responses = <<>>
          /\ exit_on("")
          /\ UNCHANGED client_responses
       \/ /\ client = "null"
          /\ client_responses # <<>>
          /\ client_responses' = Tail(client_responses)
          /\ IF Head(client_responses).exception # None
             THEN sys_exit(1) /\ UNCHANGED cli_response
             ELSE exit_on(Head(client_responses).payload)
       \/ /\ client = "real"
          /\ \E payload \in Payloads : exit_on(payload)
          /\ UNCHANGED client_responses
       \/ /\ client = "real"
          /\ sys_exit(1)
          /\ UNCHANGED <<client_responses, cli_response>>
    /\ UNCHANGED <<args, client, cli_events>>
    /\ UNCHANGED outside_cli

NextCLI ==
    \/ Run
    \/ ConnectClient
    \/ WriteObject
    \/ ReadObject

SpecCLI == InitCLI /\ [][NextCLI]_vars

\* The program was asked to trigger a pipeline.
asked_to_trigger == Len(args) >= 2 /\ args[1] = Text("trigger", TRUE)

\* events.filter("SERVER_REQUEST")
server_requests == SelectSeq(cli_events, LAMBDA e : e.kind = "SERVER_REQUEST")

(* C25: `trigger <name>` sends one request, the encoded name, to            *)
(* /tmp/rlci-engine.socket and no other; it exits with 0 iff the response   *)
(* is exactly b'True', and with 1 on any other response and on any error    *)
(* in reaching the server, in which case no response and at most the one    *)
(* request is on record.                                                     *)
C25_TriggerExit ==
    /\ Len(server_requests) <= 1
    /\ \A i \in 1..Len(server_requests) :
            server_requests[i].data = <<SocketPath, args[2].text>>
    /\ (cli = "exited" /\ asked_to_trigger) =>
        /\ cli_exit \in {Some(0), Some(1)}
        /\ cli_exit = Some(0) <=> cli_response = Some("True")
        /\ cli_response # None => Len(server_requests) = 1

\* A pipeline was triggered and the server answered b'False'.
C25_Witness ==
    /\ cli = "exited"
    /\ asked_to_trigger
    /\ client = "real"
    /\ Len(server_requests) = 1
    /\ cli_response = Some("False")
    /\ cli_exit = Some(1)

-----------------------------------------------------------------------------
(* zero.py: the development tool. Every command goes through                *)
(* ExitLoggingProcess.run, which exits with 1 when the command fails; the   *)
(* runner spawns real children, so a spawn may raise OSError as well.       *)

IntegrateSetup ==
    << <<"git", "checkout", "-b", "BRANCH">>,
       <<"git", "push", "--set-upstream", "origin", "BRANCH">> >>

TriggerCommand ==
    <<"ssh", "rlci@ci.rickardlindberg.me", "python", "/opt/rlci/current/rlci-cli.py",
      "trigger", "rlci">>

CleanupCommands ==
    << <<"git", "checkout", "main">>,
       <<"git", "pull", "--ff-only">>,
       <<"git", "branch", "-d", "BRANCH">>,
       <<"git", "push", "origin", "BRANCH", "--delete">> >>

integrate_commands == IntegrateSetup \o <<TriggerCommand>> \o CleanupCommands

DeploySetup ==
    << <<"mkdir", "-p", "/opt/rlci/html">>,
       <<"mkdir", "-p", "/opt/rlci/tmp">> >>

ReadlinkCommand == <<"readlink", "/opt/rlci/current">>

\* A deploy that always takes the first directory.
first_dir(slurped) == "/opt/rlci/a"

\* if current == "/opt/rlci/a": deploy_dir = "/opt/rlci/b", else "/opt/rlci/a"
deploy_dir(slurped) ==
    IF slurped = Some("/opt/rlci/a") THEN "/opt/rlci/b" ELSE "/opt/rlci/a"

\* The commands of deploy after the directory is chosen.
deploy_commands(dir, version) ==
    << <<"rm", "-rf", dir>>,
       <<"git", "clone", "git@github.com:rickardlindberg/rlci.git", dir>>,
       <<"git", "-C", dir, "checkout", version>>,
       <<"rm", "-f", "/opt/rlci/tmp/current">>,
       <<"ln", "-s", dir, "/opt/rlci/tmp/current">>,
       <<"mv", "/opt/rlci/tmp/current", "/opt/rlci">>,
       <<"python", "/opt/rlci/current/rlci-cli.py", "reload-engine">> >>

\* The arguments the program is started with.
ZeroArgs ==
    { <<>>, <<"build">>, <<"integrate">>, <<"integrate", "now">>,
      <<"deploy">>, <<"deploy", "<git-hash>">> }

\* What the child of readlink may write and return.
LinkChildren ==
    { [stdout |-> out, returncode |-> rc] :
        out \in {<<>>, <<RawLine("/opt/rlci/a")>>, <<RawLine("/opt/rlci/b")>>},
        rc \in {0, 1} }

\* How a command may end: its child exits with 0, its child exits with
\* another code (ExitLoggingProcess.run raises SystemExit), or the spawn
\* raises OSError.
Endings == {"ok", "SystemExit", "OSError"}

RECURSIVE texts(_)
texts(lines) ==
    IF lines = <<>> THEN <<>> ELSE <<rstrip(Head(lines))>> \o texts(Tail(lines))

\* No command is guarded by a try statement.
in_no_try(block, place) == FALSE

\* The command at `place` of `block` runs inside the try statement whose
\* finally clause holds the commands after it.
in_try(block, place) == block = "integrate" /\ place = Len(IntegrateSetup) + 1

\* Everything but zero.py.
outside_zero ==
    <<engine_vars, listener_vars, job_vars, caller_vars, cli_vars, server_vars,
      sample3_vars, more_vars>>

InitZero ==
    /\ no_engine
    /\ no_job
    /\ no_cli
    /\ zero_args \in ZeroArgs
    /\ zero = "run"
    /\ zero_commands = <<>>
    /\ position = 1
    /\ zero_events = <<>>
    /\ pending = None
    /\ link = None
    /\ current = None
    /\ zero_raised = <<>>
    /\ zero_exit = None
    /\ no_server
    /\ no_sample3
    /\ no_more

\* The program ends: sys.exit(1), or an exception that nothing catches (the
\* interpreter exits with 1), or the end of run (it exits with 0).
zero_exits(code) ==
    /\ zero' = "exited"
    /\ zero_exit' = Some(code)

\* ZeroApp.run up to the first command: which branch the arguments take.
\* The build branch runs the tests and exits with 1 unless they succeeded
\* and at least one was run.
RunZero ==
    /\ zero = "run"
    /\ \/ /\ zero_args = <<"build">>
          /\ \E was_successful \in BOOLEAN : \E count \in {0, 1} :
                /\ zero_events' = zero_events \o
                        << Event("DOCTEST_MODULE", "zero"),
                           Event("DOCTEST_MODULE", "rlci.cli"),
                           Event("DOCTEST_MODULE", "rlci.engine"),
                           Event("DOCTEST_MODULE", "rlci.infrastructure"),
                           Event("TEST_RUN", None) >>
                /\ zero_exits(IF ~was_successful \/ count <= 0 THEN 1 ELSE 0)
          /\ UNCHANGED zero_commands
       \/ /\ zero_args = <<"integrate">>
          /\ zero' = "integrate"
          /\ zero_commands' = integrate_commands
          /\ UNCHANGED <<zero_events, zero_exit>>
       \/ /\ Len(zero_args) >= 1 /\ zero_args[1] = "deploy"
          /\ IF Len(zero_args) < 2
             THEN /\ zero_events' = Append(zero_events,
                            Event("STDOUT", "No version given to deploy."))
                  /\ zero_exits(1)
                  /\ UNCHANGED zero_commands
             ELSE /\ zero' = "deploy"
                  /\ zero_commands' = DeploySetup
                  /\ UNCHANGED <<zero_events, zero_exit>>
       \/ /\ zero_args # <<"build">>
          /\ zero_args # <<"integrate">>
          /\ ~(Len(zero_args) >= 1 /\ zero_args[1] = "deploy")
          /\ zero_events' = zero_events \o
                << Event("STDOUT", "I am a tool for zero friction development of RLCI."),
                   Event("STDOUT", ""),
                   Event("STDOUT", "Run all tests with"),
                   Event("STDOUT", ""),
                   Event("STDOUT", "    ./zero.py build") >>
          /\ zero_exits(1)
          /\ UNCHANGED zero_commands
    /\ UNCHANGED <<zero_args, position, pending, link, current, zero_raised>>
    /\ UNCHANGED outside_zero

\* ExitLoggingProcess.run and Process.run up to the spawn: the command is
\* printed and notified.
zero_begins(command) ==
    zero_events' = zero_events \o << Event("STDOUT", repr(command)),
                                      Event("PROCESS", command) >>

\* self.process.run(command) of the integrate branch and of deploy, but for
\* readlink. A command that ends well is followed by the next one; after the
\* last one the program ends, with the exception in flight if the finally
\* clause ran under one. A command that raises ends the program, unless it
\* stands in the try statement: then the finally clause runs first.
RunCommand ==
    /\ zero \in {"integrate", "deploy", "install"}
    /\ position <= Len(zero_commands)
    /\ LET command == zero_commands[position]
       IN  /\ zero_begins(command)
           /\ \E ending \in Endings :
                IF ending = "ok"
                THEN /\ position' = position + 1
                     /\ UNCHANGED <<pending, zero_raised>>
                     /\ IF position < Len(zero_commands)
                        THEN UNCHANGED <<zero, zero_exit>>
                        ELSE IF zero = "deploy"
                        THEN zero' = "readlink" /\ UNCHANGED zero_exit
                        ELSE zero_exits(IF pending = None THEN 0 ELSE 1)
                ELSE /\ zero_raised' = Append(zero_raised,
                            [command |-> command, exception |-> ending])
                     /\ IF in_try(zero, position)
                        THEN /\ pending' = Some(ending)
                             /\ position' = position + 1
                             /\ UNCHANGED <<zero, zero_exit>>
                        ELSE /\ zero_exits(1)
                             /\ UNCHANGED <<position, pending>>
    /\ UNCHANGED <<zero_args, zero_commands, link, current>>
    /\ UNCHANGED outside_zero

\* current = self.process.slurp(["readlink", ...]): SystemExit is caught
\* and gives None; then the directory is chosen. OSError is not caught.
Readlink ==
    /\ zero = "readlink"
    /\ zero_begins(ReadlinkCommand)
    /\ \/ \E c \in LinkChildren :
            LET slurped == IF c.returncode # 0 THEN None
                           ELSE Some(join(texts(c.stdout)))
            IN  /\ link' = Some(c)
                /\ current' = slurped
                /\ zero_raised' =
                        IF c.returncode # 0
                        THEN Append(zero_raised,
                                [command |-> ReadlinkCommand, exception |-> "SystemExit"])
                        ELSE zero_raised
                /\ zero' = "install"
                /\ zero_commands' = deploy_commands(deploy_dir(slurped), zero_args[2])
                /\ position' = 1
                /\ UNCHANGED zero_exit
       \/ /\ zero_raised' = Append(zero_raised,
                    [command |-> ReadlinkCommand, exception |-> "OSError"])
          /\ zero_exits(1)
          /\ UNCHANGED <<link, current, zero_commands, position>>
    /\ UNCHANGED <<zero_args, pending>>
    /\ UNCHANGED outside_zero

NextZero ==
    \/ RunZero
    \/ RunCommand
    \/ Readlink

SpecZero == InitZero /\ [][NextZero]_vars

(* What a test observes of a run of zero.py. *)

\* events.filter("PROCESS"), as the list of the commands
zero_processes ==
    LET found == SelectSeq(zero_events, LAMBDA e : e.kind = "PROCESS")
    IN  [i \in 1..Len(found) |-> found[i].data]

\* The command raised: its child failed, or it could not be spawned.
zero_failed(command) ==
    \E i \in 1..Len(zero_raised) : zero_raised[i].command = command

\* The trigger command was run.
trigger_ran == zero_args = <<"integrate">> /\ Len(zero_processes) > Len(IntegrateSetup)

\* The commands run after the trigger command.
after_trigger == SubSeq(zero_processes, Len(IntegrateSetup) + 2, Len(zero_processes))

\* Every cleanup command that was run ended well.
cleanup_went_well == \A i \in 1..Len(CleanupCommands) : ~zero_failed(CleanupCommands[i])

(* C26: integrate runs the four cleanup commands, in their order, after the *)
(* trigger command whether that succeeded or failed, and exits with 1 when  *)
(* it failed.                                                                *)
C26_CleanupAlways ==
    (zero = "exited" /\ trigger_ran) =>
        /\ after_trigger = CleanupCommands
        /\ zero_failed(TriggerCommand) => zero_exit = Some(1)

(* C26, amended: after the trigger command, failed or not, integrate runs   *)
(* the cleanup commands in their order up to the first of them that fails;  *)
(* all four are run when none of them fails. The program exits with 1 when  *)
(* the trigger command failed.                                               *)
C26_CleanupUntilOneFails ==
    trigger_ran =>
        /\ is_prefix(after_trigger, CleanupCommands)
        /\ zero = "exited" =>
            /\ cleanup_went_well => after_trigger = CleanupCommands
            /\ zero_failed(TriggerCommand) => zero_exit = Some(1)

\* The trigger command failed and the four cleanup commands were run.
C26_Witness ==
    /\ zero = "exited"
    /\ trigger_ran
    /\ zero_failed(TriggerCommand)
    /\ after_trigger = CleanupCommands
    /\ zero_exit = Some(1)

\* The current link resolves to /opt/rlci/a: readlink wrote it and exited with 0.
resolves_to_a ==
    /\ link # None
    /\ Value(link).returncode = 0
    /\ join(texts(Value(link).stdout)) = "/opt/rlci/a"

\* The directory the claim names for the deploy.
chosen_dir == IF resolves_to_a THEN "/opt/rlci/b" ELSE "/opt/rlci/a"

\* The commands run after readlink.
after_readlink == SubSeq(zero_processes, Len(DeploySetup) + 2, Len(zero_processes))

\* A command of deploy with this head was run after readlink.
ran_after_readlink(head) ==
    \E i \in 1..Len(after_readlink) : after_readlink[i][1] = head

(* C27: deploy takes /opt/rlci/b iff the current link resolves to           *)
(* /opt/rlci/a, and /opt/rlci/a otherwise, also when readlink fails; that   *)
(* directory is the one removed, cloned into, checked out and linked, and   *)
(* the link is made and moved only after clone and checkout ended well.     *)
C27_DeployAlternates ==
    (Len(zero_args) = 2 /\ zero_args[1] = "deploy") =>
        /\ is_prefix(after_readlink, deploy_commands(chosen_dir, zero_args[2]))
        /\ (ran_after_readlink("ln") \/ ran_after_readlink("mv")) =>
            /\ Len(after_readlink) >= 3
            /\ \A i \in 1..3 : ~zero_failed(after_readlink[i])

\* The link resolved to /opt/rlci/a and the deploy to /opt/rlci/b went through.
C27_Witness ==
    /\ zero = "exited"
    /\ resolves_to_a
    /\ after_readlink = deploy_commands("/opt/rlci/b", "<git-hash>")
    /\ zero_exit = Some(0)

-----------------------------------------------------------------------------
(* rlci/server/src/server.py: the JSON server. Its store is in memory, so   *)
(* a coroutine yields to the others only where it waits for the child       *)
(* process of a stage.                                                       *)

MaxExecutions == 2
MaxRequests == 3

\* The asts of a compiled pipeline.
Node(id, triggers, ast) == [kind |-> "Node", id |-> id, triggers |-> triggers, ast |-> ast]

Link(from, to) == [kind |-> "Link", from |-> from, to |-> to]

\* The pipeline of test_server: a triggered stage and its child.
tested_definition ==
    << Node("0", <<[type |-> "test"]>>, "echo ${arg}"),
       Node("1", <<>>, "echo child"),
       Link("0", "1") >>

\* A pipeline with two stages triggered by the same values.
twice_triggered_definition ==
    << Node("0", <<[type |-> "test"]>>, "echo first"),
       Node("1", <<[type |-> "test"]>>, "echo second") >>

Definitions == {tested_definition, twice_triggered_definition}

\* A compiled pipeline as store_pipelines is given it: ["Pipeline",
\* {"name": ...}, ast, ...]. One without a name is malformed.
Pipeline(pipeline_name, definition) == [name |-> pipeline_name, definition |-> definition]

\* The payloads of the store_pipelines requests: one pipeline, two, and one
\* followed by a malformed one.
PipelinePayloads ==
    { << Pipeline(Some("a"), tested_definition) >>,
      << Pipeline(Some("b"), twice_triggered_definition) >>,
      << Pipeline(Some("a"), tested_definition),
         Pipeline(Some("b"), twice_triggered_definition) >>,
      << Pipeline(Some("a"), tested_definition),
         Pipeline(None, twice_triggered_definition) >> }

\* The payloads of the trigger requests.
TriggerValues == { [type |-> "test", arg |-> "99"], [type |-> "other"] }

\* What the tool writes for a stage: JSON lines, the last one the result.
ToolOutputs ==
    { << <<"Result", "success">> >>,
      << <<"Log", "stdout", "99">>, <<"Result", "success">> >>,
      << <<"Log", "stderr", "sh: not found">>, <<"Result", "failure">> >> }

\* Server.trigger_matches
trigger_matches(trigger, values) ==
    \A key \in DOMAIN trigger : key \in DOMAIN values /\ values[key] = trigger[key]

nodes(definition) == SelectSeq(definition, LAMBDA ast : ast.kind = "Node")

links(definition) == SelectSeq(definition, LAMBDA ast : ast.kind = "Link")

stage_ids(definition) == {nodes(definition)[i].id : i \in 1..Len(nodes(definition))}

\* The ids named by the links of `definition` from (or to) the stage `id`.
linked(definition, id, forward) ==
    LET found == SelectSeq(links(definition),
                    LAMBDA l : IF forward THEN l.from = id ELSE l.to = id)
    IN  [i \in 1..Len(found) |-> IF forward THEN found[i].to ELSE found[i].from]

\* Server.create_execution: every stage waits, with a new and empty logs object.
create_execution(definition) ==
    [status |-> "running",
     stages |->
        [id \in stage_ids(definition) |->
            [ast |-> (CHOOSE n \in Range(nodes(definition)) : n.id = id).ast,
             status |-> "waiting",
             input |-> EmptyDict,
             output |-> EmptyDict,
             children |-> linked(definition, id, TRUE),
             parents |-> linked(definition, id, FALSE)]]]

\* The stages Server.trigger starts for `values`, one for every trigger of
\* every node that matches, in the order of the definition.
RECURSIVE matches_of(_, _)
matches_of(stages, values) ==
    IF stages = <<>> THEN <<>>
    ELSE LET triggers == SelectSeq(Head(stages).triggers,
                            LAMBDA trigger : trigger_matches(trigger, values))
         IN  [i \in 1..Len(triggers) |-> Head(stages).id] \o matches_of(Tail(stages), values)

\* asyncio.create_task(self.execute_stage(execution_id, stage_id, values))
Execute(execution_id, stage_id, values) ==
    [execution_id |-> execution_id, stage_id |-> stage_id, args |-> values,
     at |-> "start", stdout |-> <<>>]

\* What a client wrote on a connection: `line` tells whether readline gives
\* a JSON text, a text that is no JSON, or a line longer than the limit of
\* the stream reader (64 KiB).
Request(line, message, payload, values, pipeline_id) ==
    [line |-> line, message |-> message, payload |-> payload,
     values |-> values, pipeline_id |-> pipeline_id]

\* {"status": "ok", ...} and {"status": "error", "message": str(e)}
ResponseLine(outcome, message, ids, pipeline) ==
    [status |-> outcome, message |-> message, ids |-> ids, pipeline |-> pipeline]

\* A database that keeps every pipeline under its own name.
key_of_name(pipeline_name) == pipeline_name

\* PipelineDB.store_pipeline: index["pipelines"].__setitem__("name", foo)
index_key(pipeline_name) == "name"

\* The index with `id` under `key`.
setitem(dict, key, id) ==
    [k \in DOMAIN dict \cup {key} |-> IF k = key THEN id ELSE dict[k]]

\* PipelineDB.store_pipelines over `payload`, from the database `db`: every
\* pipeline in turn is made an object of the store and put in the index
\* (the object {"versions": [pipeline_id]} between the two is left out:
\* get_active_pipelines reads versions[0] and nothing changes the list);
\* reading the name of a malformed one raises, and what was stored stays.
RECURSIVE store_pipelines(_, _)
store_pipelines(payload, db) ==
    IF payload = <<>> THEN db
    ELSE IF Head(payload).name = None
    THEN [db EXCEPT !.raised = TRUE]
    ELSE store_pipelines(Tail(payload),
            [db EXCEPT
                !.stored = Append(@, [definition |-> Head(payload).definition,
                                      execution_ids |-> <<>>]),
                !.index = setitem(@, index_key(Value(Head(payload).name)),
                                  Len(db.stored) + 1),
                !.ids = Append(@, Len(db.stored) + 1)])

\* PipelineDB.get_active_pipelines: the ids in the index (the oldest first).
get_active_pipelines ==
    SelectSeq([i \in 1..Len(stored) |-> i],
              LAMBDA i : \E k \in DOMAIN index : index[k] = i)

\* The executions Server.trigger starts for `values`: for every active
\* pipeline in `ids`, one for every trigger of every node that matches.
RECURSIVE triggered(_, _)
triggered(ids, values) ==
    IF ids = <<>> THEN <<>>
    ELSE LET found == matches_of(nodes(stored[Head(ids)].definition), values)
         IN  [i \in 1..Len(found) |-> [pipeline_id |-> Head(ids), stage_id |-> found[i]]]
                \o triggered(Tail(ids), values)

\* handle_request writes the response and a newline, and closes.
respond(received, reply) ==
    connections' = Append(connections, [request |-> received, responses |-> <<reply>>])

\* Everything but the JSON server.
outside_server ==
    <<engine_vars, listener_vars, job_vars, caller_vars, cli_vars, zero_vars,
      sample3_vars, more_vars>>

InitServer ==
    /\ no_engine
    /\ no_job
    /\ no_cli
    /\ no_zero
    /\ index = EmptyDict
    /\ executions = <<>>
    /\ logs = <<>>
    /\ tasks = <<>>
    /\ stored = <<>>
    /\ connections = <<>>
    /\ no_sample3
    /\ no_more

\* The request store_pipelines: the pipelines of the payload are stored and
\* their ids returned, or the error of a malformed one.
StorePipelines ==
    /\ Len(connections) < MaxRequests
    /\ \E payload \in PipelinePayloads :
        LET db == store_pipelines(payload,
                    [stored |-> stored, index |-> index, ids |-> <<>>, raised |-> FALSE])
        IN  /\ stored' = db.stored
            /\ index' = db.index
            /\ respond(Request("json", "store_pipelines", payload, EmptyDict, 0),
                       IF db.raised
                       THEN ResponseLine("error", "'name'", <<>>, None)
                       ELSE ResponseLine("ok", "", db.ids, None))
    /\ UNCHANGED <<executions, logs, tasks>>
    /\ UNCHANGED outside_server

\* The request trigger: for every active pipeline, an execution and a task
\* for every trigger that matches the payload.
TriggerRequest ==
    /\ Len(connections) < MaxRequests
    /\ \E values \in TriggerValues :
        LET found == triggered(get_active_pipelines, values)
            new == [i \in 1..Len(found) |-> Len(executions) + i]
        IN  /\ Len(executions) + Len(found) <= MaxExecutions
            /\ executions' = executions \o
                    [i \in 1..Len(found) |->
                        create_execution(stored[found[i].pipeline_id].definition)]
            /\ logs' = logs \o
                    [i \in 1..Len(found) |->
                        [id \in stage_ids(stored[found[i].pipeline_id].definition) |-> <<>>]]
            /\ tasks' = tasks \o
                    [i \in 1..Len(found) |-> Execute(new[i], found[i].stage_id, values)]
            /\ stored' = [id \in 1..Len(stored) |->
                    [stored[id] EXCEPT !.execution_ids = @ \o
                        SelectSeq(new, LAMBDA e :
                            found[e - Len(executions)].pipeline_id = id)]]
            /\ respond(Request("json", "trigger", <<>>, values, 0),
                       ResponseLine("ok", "", new, None))
    /\ UNCHANGED index
    /\ UNCHANGED outside_server

\* The request get_pipeline: the object of the store with that id, or the
\* KeyError of read_object.
GetPipeline ==
    /\ Len(connections) < MaxRequests
    /\ \E id \in 1..MaxRequests :
        respond(Request("json", "get_pipeline", <<>>, EmptyDict, id),
                IF id \in 1..Len(stored)
                THEN ResponseLine("ok", "", <<>>, Some(stored[id]))
                ELSE ResponseLine("error", "KeyError", <<>>, None))
    /\ UNCHANGED <<index, executions, logs, tasks, stored>>
    /\ UNCHANGED outside_server

\* A request the try statement of handle_request ends with an error: a
\* line that is no JSON (json.loads raises), a message the server does not
\* know (ValueError), and a trigger without a payload (KeyError).
FailedRequest ==
    /\ Len(connections) < MaxRequests
    /\ \/ respond(Request("text", "", <<>>, EmptyDict, 0),
                   ResponseLine("error", "Expecting value", <<>>, None))
       \/ respond(Request("json", "start", <<>>, EmptyDict, 0),
                   ResponseLine("error", "Unknown message start", <<>>, None))
       \/ respond(Request("json", "trigger", <<>>, EmptyDict, 0),
                   ResponseLine("error", "'payload'", <<>>, None))
    /\ UNCHANGED <<index, executions, logs, tasks, stored>>
    /\ UNCHANGED outside_server

\* A request line longer than the limit of the stream reader: `await
\* reader.readline()` raises ValueError before the try statement, the
\* coroutine of the connection ends with it and nothing is written.
OverlongRequest ==
    /\ Len(connections) < MaxRequests
    /\ connections' = Append(connections,
            [request |-> Request("overlong", "", <<>>, EmptyDict, 0), responses |-> <<>>])
    /\ UNCHANGED <<index, executions, logs, tasks, stored>>
    /\ UNCHANGED outside_server

\* execute_stage up to the spawn in start_process: modify_execution_start
\* marks the stage running with the values as its input.
StartStage ==
    /\ \E t \in 1..Len(tasks) :
        /\ tasks[t].at = "start"
        /\ executions' = [executions EXCEPT
                ![tasks[t].execution_id].stages[tasks[t].stage_id] =
                    [@ EXCEPT !.status = "running", !.input = tasks[t].args]]
        /\ tasks' = [tasks EXCEPT ![t].at = "spawn"]
    /\ UNCHANGED <<index, logs, stored, connections>>
    /\ UNCHANGED outside_server

\* asyncio.create_subprocess_exec: the tool runs, or the spawn raises
\* OSError and the task ends with it: modify_execution_done is not reached.
SpawnTool ==
    /\ \E t \in 1..Len(tasks) :
        /\ tasks[t].at = "spawn"
        /\ tasks' \in { [tasks EXCEPT ![t].at = "communicate"],
                        [tasks EXCEPT ![t].at = "raised"] }
    /\ UNCHANGED <<index, executions, logs, stored, connections>>
    /\ UNCHANGED outside_server

\* process.communicate returns what the tool wrote; add_log stores every
\* line of it.
Communicate ==
    /\ \E t \in 1..Len(tasks) : \E stdout \in ToolOutputs :
        /\ tasks[t].at = "communicate"
        /\ logs' = [logs EXCEPT ![tasks[t].execution_id][tasks[t].stage_id] = @ \o stdout]
        /\ tasks' = [tasks EXCEPT ![t].at = "wait", ![t].stdout = stdout]
    /\ UNCHANGED <<index, executions, stored, connections>>
    /\ UNCHANGED outside_server

\* process.wait returns and modify_execution_done sets the status.
ExecutionDone ==
    /\ \E t \in 1..Len(tasks) :
        /\ tasks[t].at = "wait"
        /\ executions' = [executions EXCEPT ![tasks[t].execution_id].status = "done"]
        /\ tasks' = [tasks EXCEPT ![t].at = "done"]
    /\ UNCHANGED <<index, logs, stored, connections>>
    /\ UNCHANGED outside_server

NextServer ==
    \/ StorePipelines
    \/ TriggerRequest
    \/ GetPipeline
    \/ FailedRequest
    \/ OverlongRequest
    \/ StartStage
    \/ SpawnTool
    \/ Communicate
    \/ ExecutionDone

SpecServer == InitServer /\ [][NextServer]_vars

\* The task of execute_stage has ended, with or without an exception.
task_ended(t) == tasks[t].at \in {"done", "raised"}

\* The triggered stage runs with the values as input, and every other stage
\* waits with empty logs.
only_triggered_stage_ran(t) ==
    LET e == tasks[t].execution_id
    IN  \A id \in DOMAIN executions[e].stages :
            IF id = tasks[t].stage_id
            THEN /\ executions[e].stages[id].status = "running"
                 /\ executions[e].stages[id].input = tasks[t].args
            ELSE /\ executions[e].stages[id].status = "waiting"
                 /\ logs[e][id] = <<>>

(* C28: every execution a trigger request returned reaches the status       *)
(* "done": once its task has ended the execution is done, the log lines of  *)
(* the triggered stage are stored, that stage is "running" with the trigger *)
(* values as input, and every other stage is "waiting" with empty logs. An  *)
(* execution is never done before that.                                      *)
C28_ExecutionDone ==
    \A t \in 1..Len(tasks) :
        LET e == tasks[t].execution_id
        IN  /\ task_ended(t) =>
                /\ executions[e].status = "done"
                /\ logs[e][tasks[t].stage_id] = tasks[t].stdout
                /\ only_triggered_stage_ran(t)
            /\ executions[e].status = "done" => task_ended(t)

-----------------------------------------------------------------------------
(* Errors in the work of a task of jobcontroller2.py. *)

\* The work of n raised: Task.run stored the text of the exception.
work_raised(n) == result[n] = "error"

\* How often task_finished was called for n.
times_finished(n) ==
    Len(SelectSeq(job_log, LAMBDA l : l.kind = "finished" /\ l.task = n))

(* C22: a task whose work raised has the status failed, task_finished was   *)
(* called for it exactly once, and the job goes on: start never stops on    *)
(* the error, and when it returns every task of the job has finished, each  *)
(* of them once.                                                            *)
C22_WorkErrorFails ==
    /\ \A n \in names :
        /\ work_raised(n) =>
            /\ status[n] = FAILED
            /\ times_finished(n) = 1
            /\ Len(SelectSeq(finished_tasks, LAMBDA m : m = n)) = 1
        /\ times_finished(n) <= 1
    /\ controller \in {"loop", "batch", "done"}
    /\ (job_done /\ valid_job) =>
            \A n \in names : Len(SelectSeq(finished_tasks, LAMBDA m : m = n)) = 1

\* The work of Task-2 of the diamond raised, and the job ran to its end with
\* tasks started after the error.
C22_Witness ==
    /\ job_done
    /\ is_diamond
    /\ work_raised("Task-2")
    /\ \E j \in 1..Len(job_log) :
        /\ job_log[j].kind = "started"
        /\ finished_before("Task-2", j)

-----------------------------------------------------------------------------
(* legacy/jobctrlsamples/sample3/jobcontroller.py: every Task.run is a      *)
(* coroutine of its own, gathered by JobController.start; a task sleeps     *)
(* until its _wait_for is empty, and task_finished prunes the _wait_for of  *)
(* the others. A task may be marked with stop() before the job starts.      *)

STOPPED == 3

\* The tasks of `job_tasks` as sample3 is given them, those named in
\* `stopped` marked with stop().
with_stop(job_tasks, stopped) ==
    [i \in 1..Len(job_tasks) |->
        [name |-> job_tasks[i].name, command |-> job_tasks[i].command,
         wait |-> job_tasks[i].wait, fails |-> job_tasks[i].fails,
         skips |-> job_tasks[i].skips, stopped |-> job_tasks[i].name \in stopped]]

\* The jobs: the diamond and the chain, with at most one task stopped.
StoppedJobs ==
    LET plain == {diamond(f4, {}, {}) : f4 \in {{}, {"Task-2"}}} \cup {reversed_chain({})}
    IN  { with_stop(j, stopped) :
            j \in plain,
            stopped \in {{}, {"Task-1"}, {"Task-2"}, {"Task-3"}} }

\* list.remove(x): the list without the first x in it.
RECURSIVE remove(_, _)
remove(list, x) ==
    IF list = <<>> THEN <<>>
    ELSE IF Head(list) = x THEN Tail(list)
    ELSE <<Head(list)>> \o remove(Tail(list), x)

\* task_finished(n) makes the waiting task t skip: n failed or was skipped,
\* t waits for n and does not run on that.
skips_on(t, n, st) ==
    /\ t.name # n
    /\ n \in Range(wait_for[t.name])
    /\ \/ st = FAILED /\ n \notin t.fails
       \/ st = SKIPPED /\ n \notin t.skips

\* JobController.task_finished(n) where n has the status st. A stopped task
\* is printed and nothing more; any other is appended to the finished tasks
\* and taken out of the _wait_for of the others, which are skipped where
\* they do not run on its failure or skip.
task_finished(n, st) ==
    IF st = STOPPED
    THEN /\ job_log' = Append(job_log, Line("stopped", n, st))
         /\ status' = [status EXCEPT ![n] = st]
         /\ UNCHANGED <<finished_tasks, wait_for>>
    ELSE /\ finished_tasks' = Append(finished_tasks, n)
         /\ job_log' = Append(job_log, Line("finished", n, st))
         /\ status' = [m \in names |->
                IF m = n THEN st
                ELSE IF skips_on(task(m), n, st) THEN SKIPPED
                ELSE status[m]]
         /\ wait_for' = [m \in names |->
                IF m = n \/ n \notin Range(wait_for[m]) THEN wait_for[m]
                ELSE IF skips_on(task(m), n, st) THEN <<>>
                ELSE remove(wait_for[m], n)]

\* Everything the controller of sample3 does not use.
outside_sample3 ==
    <<engine_vars, listener_vars, caller_vars, cli_vars, zero_vars, server_vars,
      job, waiting_tasks, start_tasks, running_tasks, result, more_vars>>

InitSample3 ==
    /\ no_engine
    /\ no_cli
    /\ no_zero
    /\ no_server
    /\ no_more
    /\ job \in StoppedJobs
    /\ status = [n \in names |-> IF task(n).stopped THEN STOPPED ELSE OK]
    /\ waiting_tasks = [i \in 1..Len(job) |-> job[i].name]
    /\ start_tasks = <<>>
    /\ running_tasks = <<>>
    /\ finished_tasks = <<>>
    /\ controller = "gather"
    /\ job_log = <<>>
    /\ result = [n \in names |-> None]
    /\ wait_for = [n \in names |-> task(n).wait]
    /\ run_at = [n \in names |-> "wait"]

\* Task.run leaves `while self._wait_for`: a stopped or skipped task calls
\* the callback at once, any other starts its work.
LeaveWait ==
    /\ controller = "gather"
    /\ \E n \in names :
        /\ run_at[n] = "wait"
        /\ wait_for[n] = <<>>
        /\ IF status[n] \in {STOPPED, SKIPPED}
           THEN /\ task_finished(n, status[n])
                /\ run_at' = [run_at EXCEPT ![n] = "ended"]
           ELSE /\ job_log' = Append(job_log, Line("started", n, OK))
                /\ run_at' = [run_at EXCEPT ![n] = "work"]
                /\ UNCHANGED <<status, finished_tasks, wait_for>>
    /\ UNCHANGED controller
    /\ UNCHANGED outside_sample3

\* _do_work ends, with an exception (status FAILED) or without, and the
\* finally clause calls the callback.
EndWork ==
    /\ controller = "gather"
    /\ \E n \in names : \E raises \in BOOLEAN :
        /\ run_at[n] = "work"
        /\ task_finished(n, IF raises THEN FAILED ELSE status[n])
        /\ run_at' = [run_at EXCEPT ![n] = "ended"]
    /\ UNCHANGED controller
    /\ UNCHANGED outside_sample3

\* asyncio.gather returns when every Task.run has returned.
Gathered ==
    /\ controller = "gather"
    /\ \A n \in names : run_at[n] = "ended"
    /\ controller' = "done"
    /\ UNCHANGED <<status, finished_tasks, job_log, wait_for, run_at>>
    /\ UNCHANGED outside_sample3

NextSample3 ==
    \/ LeaveWait
    \/ EndWork
    \/ Gathered

SpecSample3 == InitSample3 /\ [][NextSample3]_vars

\* Task.run of n has returned: n is terminal.
terminal(n) == run_at[n] = "ended"

\* n still sleeps in `while self._wait_for`.
sleeps(n) == run_at[n] = "wait" /\ wait_for[n] # <<>>

\* Some predecessor of n failed or was skipped (a stopped one that is waiting
\* is skipped like any other when a predecessor of its own fails).
skipped_for_cause(n) ==
    \E p \in predecessors(n) : status[p] \in {FAILED, SKIPPED}

(* C21: the work of a task stopped before the start is never run; a stopped *)
(* task is terminal for its dependants, so a task whose predecessors are    *)
(* all terminal does not sleep on them and the job ends rather than come to *)
(* a halt with tasks asleep; and no task is skipped for a stopped           *)
(* predecessor alone.                                                        *)
C21_StoppedIsTerminal ==
    /\ \A n \in names : task(n).stopped => ~started(n)
    /\ \A n \in names : (\A p \in predecessors(n) : terminal(p)) => ~sleeps(n)
    /\ (\A n \in names : terminal(n) \/ sleeps(n)) => \A n \in names : terminal(n)
    /\ \A n \in names : status[n] = SKIPPED => skipped_for_cause(n)

-----------------------------------------------------------------------------
(* The lists of the controller of jobcontroller2.py over a whole job. *)

\* How often the work of n was started.
times_started(n) ==
    Len(SelectSeq(job_log, LAMBDA l : l.kind = "started" /\ l.task = n))

\* n has finished: task_finished has put it on the finished list.
is_finished(n) == n \in Range(finished_tasks)

\* Nothing is called twice: task_finished at most once for a task, and once
\* for each when start has returned; the work of a task at most once, and
\* never after the task has finished without running.
C31_Once ==
    \A n \in names :
        /\ times_finished(n) <= 1
        /\ times_started(n) <= 1
        /\ Len(SelectSeq(finished_tasks, LAMBDA m : m = n)) = times_finished(n)
        /\ job_done => times_finished(n) = 1
        /\ status[n] = SKIPPED => times_started(n) = 0

\* A step of the controller leaves a finished task as it is: its status is
\* kept, it stays finished and is not waiting, ready or running.
C31_Kept ==
    \A n \in names :
        is_finished(n) =>
            /\ status'[n] = status[n]
            /\ is_finished(n)'
            /\ n \notin Range(waiting_tasks') \cup Range(start_tasks')
                            \cup Range(running_tasks')
            /\ times_started(n)' = times_started(n)
            /\ times_finished(n)' = times_finished(n)

(* C31: no task is revisited. task_finished is called exactly once for each *)
(* task, the work of a task is started at most once, and once a task is     *)
(* terminal (ok, failed or skipped and on the finished list) no later step  *)
(* of the controller changes its status or moves it back to the waiting,    *)
(* ready or running tasks.                                                  *)
C31_NoRevisit == []C31_Once /\ [][C31_Kept]_vars

\* The diamond has finished after further passes over the waiting tasks
\* that followed the skip of Task-4 and the failure of Task-2.
C31_Witness ==
    /\ job_done
    /\ is_diamond
    /\ status["Task-2"] = FAILED
    /\ status["Task-4"] = SKIPPED
    /\ times_finished("Task-4") = 1
    /\ times_started("Task-5") = 1

\* The same of the controller of sample3: the callback is called at most
\* once for a task, its work is started at most once, and a task whose run
\* has returned keeps its status.
NoRevisitSample3 ==
    /\ []( \A n \in names :
            /\ Len(SelectSeq(job_log, LAMBDA l :
                    l.kind \in {"finished", "stopped"} /\ l.task = n))
                  = IF terminal(n) THEN 1 ELSE 0
            /\ times_started(n) <= 1 )
    /\ [][ \A n \in names :
            terminal(n) => terminal(n)' /\ status'[n] = status[n] ]_vars

-----------------------------------------------------------------------------
(* Batches of jobcontroller2.py. *)

\* A pass over the waiting tasks begins (the loop of start is at its head)
\* only when no task runs or is left to start.
C32_PassAfterBatch ==
    controller \in {"loop", "done"} => running_tasks = <<>> /\ start_tasks = <<>>

\* While a task runs no task leaves the waiting list, none is skipped and
\* none is started.
C32_NoPromotionWhileRunning ==
    running_tasks # <<>> =>
        /\ waiting_tasks' = waiting_tasks
        /\ start_tasks' = start_tasks
        /\ \A n \in names :
            /\ status'[n] = SKIPPED => status[n] = SKIPPED
            /\ times_started(n)' = times_started(n)
            /\ n \in Range(running_tasks') => n \in Range(running_tasks)

(* C32: batch-parallel scheduling. All tasks of a dispatch batch are        *)
(* terminal before the next promotion pass begins, so no waiting task is    *)
(* promoted or skipped while any task is running.                           *)
C32_BatchParallel == []C32_PassAfterBatch /\ [][C32_NoPromotionWhileRunning]_vars

\* In the second batch of the diamond Task-2 and Task-3 have finished and
\* Task-6 still runs: Task-4 is left waiting though all it waits for has
\* finished.
C32_Witness ==
    /\ is_diamond
    /\ controller = "batch"
    /\ running_tasks = <<"Task-6">>
    /\ is_finished("Task-2") /\ is_finished("Task-3")
    /\ waiting_tasks = <<"Task-4", "Task-5">>

-----------------------------------------------------------------------------
(* When a task of jobcontroller2.py is skipped. *)

\* The job in which Task-3 waits for Task-1 and for Task-2.
is_staggered == Len(job) = 3 /\ Len(task("Task-3").wait) = 2

(* C38: a task is never marked skipped while one of the tasks it waits for  *)
(* is not terminal. The failure of a predecessor skips the dependant only   *)
(* once every task in its waitFor has finished: each of them is on the      *)
(* finished list, and was reported finished before the dependant was.       *)
C38_DeferredSkip ==
    /\ \A n \in names :
        status[n] = SKIPPED =>
            \A p \in predecessors(n) :
                is_finished(p) /\ status[p] \in {OK, FAILED, SKIPPED}
    /\ \A j \in 1..Len(job_log) :
        (job_log[j].kind = "finished" /\ job_log[j].status = SKIPPED) =>
            \A p \in predecessors(job_log[j].task) : finished_before(p, j)

\* Task-1 has failed and Task-2, which runs on that failure, is running:
\* Task-3 has a failed predecessor, and is still waiting and not skipped.
C38_Witness ==
    /\ is_staggered
    /\ status["Task-1"] = FAILED /\ is_finished("Task-1")
    /\ running_tasks = <<"Task-2">>
    /\ requires_skip("Task-3")
    /\ waiting_tasks = <<"Task-3">>
    /\ status["Task-3"] = OK

-----------------------------------------------------------------------------
(* The four lists of the controller of jobcontroller2.py. *)

\* How often n is on a list.
count(list, n) == Len(SelectSeq(list, LAMBDA m : m = n))

\* _process_tasks is not under way: start is at the head of its loop or
\* has returned.
between_passes == controller \in {"loop", "done"}

(* C39: between the passes of the controller the four task lists partition  *)
(* the job. After every call of _process_tasks each added task is on        *)
(* exactly one of the waiting and the finished list, and on it once; the    *)
(* ready (start) and the running list are empty; and the finished list has  *)
(* no duplicates.                                                           *)
C39_Partition ==
    /\ between_passes =>
        /\ \A n \in names :
                count(waiting_tasks, n) + count(finished_tasks, n) = 1
        /\ start_tasks = <<>>
        /\ running_tasks = <<>>
    /\ \A n \in names : count(finished_tasks, n) <= 1
    /\ Range(waiting_tasks) \cup Range(finished_tasks) \cup Range(running_tasks)
            \subseteq names

\* The second batch of the diamond is over: four tasks have finished and
\* two are waiting for the next pass.
C39_Witness ==
    /\ is_diamond
    /\ controller = "loop"
    /\ Len(finished_tasks) = 4
    /\ waiting_tasks = <<"Task-4", "Task-5">>

-----------------------------------------------------------------------------
(* The argv of the children and the PROCESS events. *)

\* The program text a step's command is wrapped in, as the engine hands it
\* to python3 -c.
Shim == "import sys; import os; os.chdir(sys.argv[1]); os.execvp(sys.argv[2], sys.argv[2:])"

\* Every call of Popen has a PROCESS event of its own with the same argv,
\* in the same order, and that event is the last one emitted before it.
C33_OneEventBeforeSpawn ==
    /\ Len(spawns) = Len(process_events)
    /\ \A i \in 1..Len(spawns) :
        /\ process_events[i].data = spawns[i].command
        /\ spawns[i].after \in 1..Len(events)
        /\ events[spawns[i].after] = Event("PROCESS", spawns[i].command)
        /\ Len(SelectSeq(SubSeq(events, 1, spawns[i].after),
                         LAMBDA e : e.kind = "PROCESS")) = i

\* A step whose variables are all bound is run by one call of Popen with
\* python3, -c, the shim, the workspace and the resolved command.
C33_StepArgv ==
    (/\ pc = "loop"
     /\ pc' # "loop"
     /\ ~raises_KeyError(steps[step_index].command, variables)) =>
        /\ Len(spawns') = Len(spawns) + 1
        /\ Last(spawns').command =
                <<"python3", "-c", Shim, Value(workspace)>>
                    \o resolve(steps[step_index].command, variables)
        /\ Len(events') = Len(events) + 2
        /\ Last(events') = Event("PROCESS", Last(spawns').command)

(* C33: every command a step runs is spawned as the literal argv python3,   *)
(* -c, the chdir-and-exec shim, the workspace path, then the resolved       *)
(* command; and Process.run emits exactly one PROCESS event carrying that   *)
(* literal argv before the child is spawned.                                *)
C33_LiteralArgv == []C33_OneEventBeforeSpawn /\ [][C33_StepArgv]_vars

\* The second step was spawned with the value its variable was bound to by
\* the first.
C33_Witness ==
    /\ Len(steps) = 2
    /\ Len(spawns) = 3
    /\ spawns[2].command = <<"python3", "-c", Shim, "/w 1", "cat", "path.txt">>
    /\ spawns[3].command = <<"python3", "-c", Shim, "/w 1", "cd", "/w 1">>

-----------------------------------------------------------------------------
(* The null process runner. *)

\* The texts of the lines a child has still to write.
texts_of(lines) == [k \in 1..Len(lines) |-> lines[k].text]

\* Process.run of a null runner: one PROCESS event, no exception, and the
\* child is the first response left for the command, which is taken off the
\* responses, or a child without output and with the exit code 0.
C34_FirstMatchConsumed ==
    (subprocess = "null" /\ Len(spawns') = Len(spawns) + 1) =>
        LET command == Last(spawns').command
            matching == {i \in 1..Len(responses) : responses[i]["command"] = command}
        IN  /\ Len(process_events') = Len(process_events) + 1
            /\ Last(process_events').data = command
            /\ raised' = raised /\ exc' = exc /\ pc' = "reading"
            /\ IF matching = {}
               THEN /\ child' = [stdout |-> <<>>, returncode |-> 0]
                    /\ responses' = responses
               ELSE LET i == CHOOSE i \in matching : \A j \in matching : i <= j
                    IN  /\ child'.returncode = responses[i]["returncode"]
                        /\ texts_of(child'.stdout) = responses[i]["output"]
                        /\ Len(responses') = Len(responses) - 1
                        /\ \A k \in 1..Len(responses') :
                                responses'[k] = responses[IF k < i THEN k ELSE k + 1]

\* The lines of the child are handed to `output` one by one in their order,
\* and when none is left its exit code is what run returns. The responses
\* are touched by Popen only.
C34_Delivered ==
    (subprocess = "null" /\ pc = "reading" /\ stage_commands' # stage_commands) =>
        /\ responses' = responses
        /\ IF child.stdout # <<>>
           THEN /\ output' = Append(output, Head(child.stdout).text)
                /\ child' = [child EXCEPT !.stdout = Tail(@)]
                /\ Last(stage_commands').output
                        = Append(Last(stage_commands).output, Head(child.stdout).text)
           ELSE /\ Last(stage_commands').returncode = Some(child.returncode)
                /\ Last(stage_commands').output = Last(stage_commands).output

\* A null runner spawns nothing: no spawn of it fails, and it takes no
\* outcome from the system.
C34_NothingSpawned ==
    subprocess = "null" => "OSError" \notin Range(raised) /\ given = {}

(* C34: the null process runner. Each run(command) uses the first response  *)
(* not yet consumed whose command equals the argument, removes it so that a *)
(* later identical command gets the next matching one, delivers its output  *)
(* lines in order and returns its returncode; when no response matches it   *)
(* delivers no output and returns 0; in every case one PROCESS event is     *)
(* emitted and nothing is spawned.                                          *)
C34_NullRunner ==
    /\ []C34_NothingSpawned
    /\ [][C34_FirstMatchConsumed]_vars
    /\ [][C34_Delivered]_vars

\* The same command was run twice against one response for it: the first
\* run got the two lines of the response, the second one nothing and 0.
C34_Witness ==
    /\ subprocess = "null"
    /\ Len(stage_commands) >= 3
    /\ stage_commands[2].command = stage_commands[3].command
    /\ stage_commands[2].output = <<"secret", "-path">>
    /\ stage_commands[3].output = <<>>
    /\ stage_commands[3].returncode = Some(0)
    /\ responses = <<>>

-----------------------------------------------------------------------------
(* rlci/tool/src/footer.py: cmd_run runs the commands of a stage with sh.   *)
(* sh spawns a shell, stream_process starts a reader thread for each of its *)
(* two streams, and the main thread prints what the readers put on a queue  *)
(* until both have put their end marker.                                    *)

MaxCommands == 1        \* the calls of sh in a stage
MaxStreamLines == 2     \* the lines a child writes on one stream
MaxPrinted == 4         \* the Log lines of a whole stage

StreamNames == {"stdout", "stderr"}

\* The lines a child writes on a stream: "out 1", "out 2", ... on stdout and
\* "err 1", "err 2", ... on stderr, each ended by a newline.
stream_text(stream, n) ==
    [i \in 1..n |-> RawLine((IF stream = "stdout" THEN "out " ELSE "err ") \o ToString(i))]

\* ["Log", name, line.rstrip("\n")]
Log(stream, line) == <<"Log", stream, rstrip(line)>>

\* ["end", name]
End(stream) == <<"end", stream>>

\* json.dumps(["Result", "success", ...]) and (["Result", "failure", str(e)])
Result(outcome, message) == <<"Result", outcome, message>>

\* A loop that is left at the first end marker.
until_first_end(list) == Len(list) = 2

\* `while ends:`
while_ends(list) == list # <<>>

outside_tool ==
    <<engine_vars, listener_vars, job_vars, caller_vars, cli_vars, zero_vars,
      server_vars, sample3_vars, socket_vars>>

InitTool ==
    /\ no_engine
    /\ no_job
    /\ no_cli
    /\ no_zero
    /\ no_server
    /\ no_sample3
    /\ no_socket
    /\ tool = "run"
    /\ sh_calls = <<>>
    /\ unread = EmptyDict
    /\ readers = EmptyDict
    /\ queue = <<>>
    /\ ends = <<>>
    /\ printed = <<>>
    /\ last_stdout = ""

\* The stage calls sh(command). create_process_sh raises ProcessFailure when
\* the shell cannot be spawned, which cmd_run prints as the result; otherwise
\* stream_process makes the queue and starts the two readers.
CallSh ==
    /\ tool = "run"
    /\ Len(sh_calls) < MaxCommands
    /\ last_stdout' = ""
    /\ \/ /\ printed' = Append(printed, Result("failure", "Unable to create process"))
          /\ tool' = "done"
          /\ UNCHANGED <<sh_calls, unread, readers, queue, ends>>
       \/ /\ \E n \in 0..MaxStreamLines, m \in 0..MaxStreamLines :
                /\ Len(printed) + n + m <= MaxPrinted
                /\ unread' = [stdout |-> stream_text("stdout", n),
                              stderr |-> stream_text("stderr", m)]
                /\ sh_calls' = Append(sh_calls,
                        [stdout |-> stream_text("stdout", n),
                         stderr |-> stream_text("stderr", m),
                         at |-> Len(printed)])
          /\ readers' = [stream \in StreamNames |-> "reading"]
          /\ queue' = <<>>
          /\ ends' = <<"stdout", "stderr">>
          /\ tool' = "stream"
          /\ UNCHANGED printed
    /\ UNCHANGED outside_tool

\* reader: `for line in stream: output.put(["Log", name, line.rstrip("\n")])`
ReaderPut ==
    /\ \E stream \in DOMAIN readers :
        /\ readers[stream] = "reading"
        /\ unread[stream] # <<>>
        /\ queue' = Append(queue, Log(stream, Head(unread[stream])))
        /\ unread' = [unread EXCEPT ![stream] = Tail(@)]
    /\ UNCHANGED <<tool, sh_calls, readers, ends, printed, last_stdout>>
    /\ UNCHANGED outside_tool

\* reader: the stream is at its end, `finally: output.put(["end", name])`.
ReaderEnd ==
    /\ \E stream \in DOMAIN readers :
        /\ readers[stream] = "reading"
        /\ unread[stream] = <<>>
        /\ queue' = Append(queue, End(stream))
        /\ readers' = [readers EXCEPT ![stream] = "ended"]
    /\ UNCHANGED <<tool, sh_calls, unread, ends, printed, last_stdout>>
    /\ UNCHANGED outside_tool

\* One turn of `while ends`: output.get() takes the oldest item; an end
\* marker is taken off `ends`, any other item is yielded to sh, which keeps
\* the last line of stdout and prints the item.
Get ==
    /\ tool = "stream"
    /\ while_ends(ends)
    /\ queue # <<>>
    /\ queue' = Tail(queue)
    /\ LET item == Head(queue)
       IN  IF item[1] = "end"
           THEN /\ ends' = remove(ends, item[2])
                /\ UNCHANGED <<printed, last_stdout>>
           ELSE /\ printed' = Append(printed, item)
                /\ last_stdout' = IF item[2] = "stdout" THEN item[3] ELSE last_stdout
                /\ UNCHANGED ends
    /\ UNCHANGED <<tool, sh_calls, unread, readers>>
    /\ UNCHANGED outside_tool

\* The loop of stream_process is left; process.wait() gives the exit code
\* and sh raises ProcessFailure unless it is 0, which cmd_run prints as the
\* result.
ProcessWait ==
    /\ tool = "stream"
    /\ ~while_ends(ends)
    /\ \E returncode \in ReturnCodes :
        IF returncode # 0
        THEN /\ printed' = Append(printed,
                    Result("failure", "Non-zero exit code: " \o ToString(returncode) \o "."))
             /\ tool' = "done"
        ELSE /\ tool' = "run"
             /\ UNCHANGED printed
    /\ UNCHANGED <<sh_calls, unread, readers, queue, ends, last_stdout>>
    /\ UNCHANGED outside_tool

\* The stage has no further command: cmd_run prints the result.
StageDone ==
    /\ tool = "run"
    /\ printed' = Append(printed, Result("success", ""))
    /\ tool' = "done"
    /\ UNCHANGED <<sh_calls, unread, readers, queue, ends, last_stdout>>
    /\ UNCHANGED outside_tool

NextTool ==
    \/ CallSh
    \/ ReaderPut
    \/ ReaderEnd
    \/ Get
    \/ ProcessWait
    \/ StageDone

SpecTool == InitTool /\ [][NextTool]_vars

\* The threads are scheduled: a thread that can take a step takes one.
SpecToolFair == SpecTool /\ WF_vars(NextTool)

\* What was printed during call k of sh: from its start to the start of
\* the next call, or to now.
printed_in(k) ==
    SubSeq(printed, sh_calls[k].at + 1,
           IF k < Len(sh_calls) THEN sh_calls[k + 1].at ELSE Len(printed))

\* The Log items of a stream printed during call k, in the order printed.
logs_of(k, stream) ==
    SelectSeq(printed_in(k), LAMBDA x : x[1] = "Log" /\ x[2] = stream)

\* The Log items of all the lines the child of call k wrote on a stream.
logs_due(k, stream) ==
    [i \in 1..Len(sh_calls[k][stream]) |-> Log(stream, sh_calls[k][stream][i])]

\* stream_process of call k has returned.
stream_over(k) == k < Len(sh_calls) \/ tool # "stream" \/ ends = <<>>

results_printed == SelectSeq(printed, LAMBDA x : x[1] = "Result")

\* Of each stream the lines printed are the first lines written, in their
\* order and each once, and all of them when stream_process has returned;
\* no end marker is printed; when both end markers have been taken nothing
\* is left to yield; and there is at most one Result line, the last line
\* printed, with which cmd_run ends.
C35_Merged ==
    /\ \A k \in 1..Len(sh_calls) : \A stream \in StreamNames :
        /\ is_prefix(logs_of(k, stream), logs_due(k, stream))
        /\ stream_over(k) => logs_of(k, stream) = logs_due(k, stream)
    /\ \A i \in 1..Len(printed) : printed[i][1] \in {"Log", "Result"}
    /\ (tool = "stream" /\ ends = <<>>) =>
            queue = <<>> /\ \A stream \in StreamNames : readers[stream] = "ended"
    /\ Len(results_printed) <= 1
    /\ tool = "done" <=> Len(results_printed) = 1
    /\ tool = "done" => Last(printed)[1] = "Result"

\* Once both end markers have been taken stream_process yields no item.
C35_NoYieldAfterEnds ==
    (tool = "stream" /\ ends = <<>>) =>
        SelectSeq(printed', LAMBDA x : x[1] = "Log")
            = SelectSeq(printed, LAMBDA x : x[1] = "Log")

(* C35: stream_process merges the stdout and the stderr of a child, read by *)
(* two concurrent reader threads. It yields every line of both streams as a *)
(* Log item exactly once, keeps the order of the lines within each stream,  *)
(* never yields an item after both end markers, and terminates once both    *)
(* streams have ended; sh prints each item, and the single Result line      *)
(* comes last.                                                              *)
C35_StreamProcess ==
    /\ []C35_Merged
    /\ [][C35_NoYieldAfterEnds]_vars
    /\ (tool = "stream" ~> tool # "stream")
    /\ <>(tool = "done")

\* The child wrote two lines on each stream, and those of stderr were
\* printed between those of stdout.
C35_Witness ==
    /\ tool = "done"
    /\ printed = << Log("stdout", RawLine("out 1")), Log("stderr", RawLine("err 1")),
                    Log("stderr", RawLine("err 2")), Log("stdout", RawLine("out 2")),
                    Result("success", "") >>


\* ---------------------------------------------------------------------
\* The JSON server: one response line for every connection
\* ---------------------------------------------------------------------

\* The connections whose request made the handler raise.
failed_connections ==
    {c \in 1..Len(connections) :
        \/ connections[c].request.line # "json"
        \/ connections[c].request.message = "start"
        \/ connections[c].request.message = "trigger"
                /\ connections[c].request.values = EmptyDict
        \/ connections[c].request.message = "get_pipeline"
                /\ connections[c].request.pipeline_id > Len(stored)
        \/ connections[c].request.message = "store_pipelines"
                /\ \E i \in 1..Len(connections[c].request.payload) :
                        connections[c].request.payload[i].name = None}

\* C36: every connection of the JSON server yields exactly one response
\* line, and a request whose handling raises gets a line with the status
\* "error".
C36_OneResponseLine ==
    /\ \A c \in 1..Len(connections) : Len(connections[c].responses) = 1
    /\ \A c \in failed_connections :
            \A i \in 1..Len(connections[c].responses) :
                connections[c].responses[i].status = "error"

\* ---------------------------------------------------------------------
\* The JSON server: the index of the pipelines
\* ---------------------------------------------------------------------

\* The index holds at most one entry, the pipeline stored last, and
\* get_active_pipelines gives that one only.
C40_OneEntry ==
    /\ Cardinality(DOMAIN index) <= 1
    /\ stored # <<>> =>
        /\ DOMAIN index = {"name"}
        /\ index["name"] = Len(stored)
        /\ get_active_pipelines = <<Len(stored)>>

\* No step changes a pipeline that is not the one stored last: it stays
\* in the store as it is, and no execution is added to it.
C40_EarlierKept ==
    \A id \in 1..Len(stored) :
        id < Len(stored) => id \in 1..Len(stored') /\ stored'[id] = stored[id]

\* A get_pipeline request for the id of a stored pipeline is answered
\* with that pipeline, whether it is the active one or not.
C40_Readable ==
    Len(connections') > Len(connections) =>
        LET served == connections'[Len(connections')]
        IN  (served.request.message = "get_pipeline"
                /\ served.request.pipeline_id \in 1..Len(stored))
            => served.responses =
                    <<ResponseLine("ok", "", <<>>,
                                   Some(stored[served.request.pipeline_id]))>>

\* C40: PipelineDB keeps every stored pipeline under the same key of the
\* index, so the index holds at most one entry and trigger sees only the
\* pipeline stored last; earlier pipelines stay readable by id and are
\* never triggered.
C40_LatestOnly ==
    /\ []C40_OneEntry
    /\ [][C40_EarlierKept /\ C40_Readable]_vars

\* Two pipelines are stored, a trigger has started an execution of the
\* second one, and the first one was read by its id.
C40_Witness ==
    /\ Len(stored) = 2
    /\ stored[2].execution_ids # <<>>
    /\ stored[1].execution_ids = <<>>
    /\ \E c \in 1..Len(connections) :
        /\ connections[c].request.message = "get_pipeline"
        /\ connections[c].request.pipeline_id = 1
        /\ \E i \in 1..Len(connections[c].responses) :
                connections[c].responses[i].status = "ok"

\* ---------------------------------------------------------------------
\* rlci/infrastructure/__init__.py: UnixDomainSocketClient.send_request
\* ---------------------------------------------------------------------

\* retry_delays = [0.01, 0.05, 0.10, 0.20, 0.50, 1.00, 2.00], in milliseconds
initial_retry_delays == <<10, 50, 100, 200, 500, 1000, 2000>>

\* What s.connect(path) does: it returns, or raises an OSError.
ConnectOutcomes ==
    {"connected", "ConnectionRefusedError", "FileNotFoundError", "PermissionError"}

\* A client that tries again whatever connect raised.
every_error(error) == TRUE

\* except (ConnectionRefusedError, FileNotFoundError)
retried(error) == error \in {"ConnectionRefusedError", "FileNotFoundError"}

\* Everything but the socket client.
outside_socket ==
    <<engine_vars, listener_vars, job_vars, caller_vars, cli_vars, zero_vars,
      server_vars, sample3_vars, tool_vars>>

\* send_request("/tmp/path.socket", b"data") is called: the socket is made
\* and the list of delays is whole.
InitSocket ==
    /\ no_engine
    /\ no_job
    /\ no_cli
    /\ no_zero
    /\ no_server
    /\ no_sample3
    /\ no_tool
    /\ socket_client = "connect"
    /\ retry_delays = initial_retry_delays
    /\ connects = <<>>
    /\ slept = <<>>
    /\ socket_events = <<>>
    /\ socket_written = <<>>
    /\ socket_raised = None

\* One turn of the loop: s.connect(path) returns and the loop is left, or
\* it raises. An error of the except clause is followed by a sleep of the
\* first delay left, which is popped, and by the next turn; with no delay
\* left it is raised again. Any other error leaves send_request at once.
SocketConnect ==
    /\ socket_client = "connect"
    /\ \E outcome \in ConnectOutcomes :
        /\ connects' = Append(connects, outcome)
        /\ IF outcome = "connected"
           THEN /\ socket_client' = "connected"
                /\ UNCHANGED <<retry_delays, slept, socket_raised>>
           ELSE IF retried(outcome) /\ retry_delays # <<>>
           THEN /\ slept' = Append(slept, Head(retry_delays))
                /\ retry_delays' = Tail(retry_delays)
                /\ UNCHANGED <<socket_client, socket_raised>>
           ELSE /\ socket_client' = "raised"
                /\ socket_raised' = Some(outcome)
                /\ UNCHANGED <<retry_delays, slept>>
    /\ UNCHANGED <<socket_events, socket_written>>
    /\ UNCHANGED <<outside_socket>>

\* After the loop: notify SERVER_REQUEST, write the request, read the
\* response.
SocketExchange ==
    /\ socket_client = "connected"
    /\ socket_events' = Append(socket_events, <<"SERVER_REQUEST", "/tmp/path.socket", "data">>)
    /\ socket_written' = Append(socket_written, "data")
    /\ socket_client' = "returned"
    /\ UNCHANGED <<retry_delays, connects, slept, socket_raised>>
    /\ UNCHANGED <<outside_socket>>

NextSocket == SocketConnect \/ SocketExchange

SpecSocket == InitSocket /\ [][NextSocket]_vars

\* At most 8 calls of connect, one more than the sleeps before the loop
\* is left, and the sleeps are the delays of the list in its order.
C37_Bounded ==
    /\ Len(connects) <= 8
    /\ Len(slept) <= 7
    /\ slept = SubSeq(initial_retry_delays, 1, Len(slept))
    /\ retry_delays = SubSeq(initial_retry_delays, Len(slept) + 1, 7)
    /\ Len(connects) = Len(slept) + (IF socket_client = "connect" THEN 0 ELSE 1)

\* Every connect that was followed by another one raised
\* ConnectionRefusedError or FileNotFoundError.
C37_RetriedErrors ==
    \A i \in 1..Len(connects) :
        (i < Len(connects) \/ socket_client = "connect")
            => connects[i] \in {"ConnectionRefusedError", "FileNotFoundError"}

\* send_request ends with an exception exactly when the last connect
\* raised an error that is not retried or was the 8th, and the exception
\* is that error.
C37_Reraised ==
    /\ socket_client = "raised" =>
        /\ socket_raised = Some(connects[Len(connects)])
        /\ connects[Len(connects)] # "connected"
        /\ connects[Len(connects)] \in {"ConnectionRefusedError", "FileNotFoundError"}
                => Len(connects) = 8
    /\ socket_client # "raised" => socket_raised = None
    /\ (Len(connects) = 8 /\ connects[8] # "connected") => socket_client = "raised"

\* SERVER_REQUEST is notified and the request written once, and only
\* after a connect that succeeded.
C37_AfterConnect ==
    /\ (socket_events # <<>> \/ socket_written # <<>>) =>
        /\ connects # <<>>
        /\ connects[Len(connects)] = "connected"
        /\ socket_client = "returned"
    /\ socket_client = "returned" =>
        /\ socket_events = << <<"SERVER_REQUEST", "/tmp/path.socket", "data">> >>
        /\ socket_written = <<"data">>

\* C37: send_request makes at most 8 connect attempts, one initial and one
\* after each of the 7 delays, retries only on ConnectionRefusedError and
\* FileNotFoundError, raises the error again when the 8th attempt fails,
\* and notifies SERVER_REQUEST and writes the request only after a connect
\* has succeeded.
C37_ConnectRetry ==
    C37_Bounded /\ C37_RetriedErrors /\ C37_Reraised /\ C37_AfterConnect

\* The 8th connect failed after all 7 sleeps and its error was raised.
C37_Witness ==
    /\ socket_client = "raised"
    /\ Len(connects) = 8
    /\ Len(slept) = 7
    /\ socket_raised = Some("FileNotFoundError")
    /\ socket_events = <<>>

\* The 8th connect succeeded and the request was sent.
C37_WitnessSent ==
    /\ socket_client = "returned"
    /\ Len(connects) = 8
    /\ socket_written = <<"data">>


====
